---- MODULE Spec2Model ----
(***************************************************************************)
(* Model of the GTMDeepDiver ROI scenario engine (src/lib/roi-calculator.ts)*)
(* and of the route handler that calls it (POST /api/projects/[id]/roi).    *)
(*                                                                          *)
(* JavaScript numbers are modelled as extended rationals [n, d]:            *)
(*   d > 0   the finite value n/d, kept in lowest terms;                    *)
(*   d = 0   n = 1 is Infinity, n = -1 is -Infinity, n = 0 is NaN.          *)
(* Arithmetic on finite values is exact; the operators follow IEEE 754 for  *)
(* the special values (x/0, Infinity * 0, comparisons with NaN, ...).       *)
(* Binary rounding error of doubles and the sign of zero are not modelled.  *)
(***************************************************************************)
EXTENDS Integers, Sequences, FiniteSets, TLC

(***************************************************************************)
(* Numbers                                                                  *)
(***************************************************************************)
Abs(x) == IF x < 0 THEN -x ELSE x

RECURSIVE GCD(_, _)
GCD(a, b) == IF b = 0 THEN a ELSE GCD(b, a % b)

\* The finite number n/d (d # 0) in lowest terms with a positive denominator.
Rat(n, d) ==
    LET s == IF d < 0 THEN -1 ELSE 1
        g == GCD(Abs(n), Abs(d))
    IN  [n |-> (s * n) \div g, d |-> (s * d) \div g]

Infinity == [n |-> 1, d |-> 0]
NegInfinity == [n |-> -1, d |-> 0]
NaN == [n |-> 0, d |-> 0]
Zero == [n |-> 0, d |-> 1]
One == [n |-> 1, d |-> 1]

IsNaN(a) == a.d = 0 /\ a.n = 0
IsFinite(a) == a.d > 0
Sign(a) == IF a.n > 0 THEN 1 ELSE IF a.n < 0 THEN -1 ELSE 0
Signed(s) == IF s > 0 THEN Infinity ELSE IF s < 0 THEN NegInfinity ELSE NaN

\* a * b
Mul(a, b) ==
    IF IsNaN(a) \/ IsNaN(b) THEN NaN
    ELSE IF a.d = 0 \/ b.d = 0 THEN Signed(Sign(a) * Sign(b))
    ELSE Rat(a.n * b.n, a.d * b.d)

\* a + b
Add(a, b) ==
    IF IsNaN(a) \/ IsNaN(b) THEN NaN
    ELSE IF a.d = 0 /\ b.d = 0 THEN (IF a.n = b.n THEN a ELSE NaN)
    ELSE IF a.d = 0 THEN a
    ELSE IF b.d = 0 THEN b
    ELSE Rat(a.n * b.d + b.n * a.d, a.d * b.d)

Neg(a) == [n |-> -a.n, d |-> a.d]

\* a - b
Sub(a, b) == Add(a, Neg(b))

\* a / b
Div(a, b) ==
    IF IsNaN(a) \/ IsNaN(b) THEN NaN
    ELSE IF a.d = 0 /\ b.d = 0 THEN NaN
    ELSE IF a.d = 0 THEN (IF b.n < 0 THEN Neg(a) ELSE a)
    ELSE IF b.d = 0 THEN Zero
    ELSE IF b.n = 0 THEN Signed(Sign(a))
    ELSE Rat(a.n * b.d, a.d * b.n)

\* a < b (false when either side is NaN)
Lt(a, b) ==
    IF IsNaN(a) \/ IsNaN(b) THEN FALSE
    ELSE IF a.d = 0 /\ b.d = 0 THEN a.n < b.n
    ELSE IF a.d = 0 THEN a.n < 0
    ELSE IF b.d = 0 THEN b.n > 0
    ELSE a.n * b.d < b.n * a.d

Gt(a, b) == Lt(b, a)
\* a <= b and a >= b (false when either side is NaN)
Le(a, b) == ~IsNaN(a) /\ ~IsNaN(b) /\ ~Lt(b, a)
Ge(a, b) == Le(b, a)

\* Math.min(a, b)
MathMin(a, b) ==
    IF IsNaN(a) \/ IsNaN(b) THEN NaN
    ELSE IF Lt(b, a) THEN b ELSE a

\* Math.round(a): the integer nearest to a, halves going up (floor(a + 1/2));
\* NaN and the infinities are returned unchanged.
MathRound(a) ==
    IF a.d = 0 THEN a
    ELSE Rat((2 * a.n + a.d) \div (2 * a.d), 1)

Int2Rat(k) == [n |-> k, d |-> 1]
Ten == Int2Rat(10)
Twelve == Int2Rat(12)
Hundred == Int2Rat(100)

(***************************************************************************)
(* src/lib/schemas.ts: RoiInputs                                            *)
(***************************************************************************)
RoiInputFields ==
    {"nPeople", "costPerHour", "hoursSavedPerPersonPerMonth",
     "errorCostAnnual", "errorReductionPct", "cloudSpendAnnual",
     "cloudReductionPct", "riskCostAnnual", "riskReductionPct",
     "licenseCostAnnual", "implementationOneTime"}

IsInt(a) == a.d = 1
InUnit(a) == Ge(a, Zero) /\ Le(a, One)

\* RoiInputs.parse(body) succeeds: every constraint of the zod schema holds.
RoiInputsValid(body) ==
    /\ IsInt(body.nPeople) /\ Ge(body.nPeople, One)
    /\ IsFinite(body.costPerHour) /\ Ge(body.costPerHour, Zero)
    /\ IsFinite(body.hoursSavedPerPersonPerMonth)
    /\ Ge(body.hoursSavedPerPersonPerMonth, Zero)
    /\ IsFinite(body.errorCostAnnual) /\ Ge(body.errorCostAnnual, Zero)
    /\ InUnit(body.errorReductionPct)
    /\ IsFinite(body.cloudSpendAnnual) /\ Ge(body.cloudSpendAnnual, Zero)
    /\ InUnit(body.cloudReductionPct)
    /\ IsFinite(body.riskCostAnnual) /\ Ge(body.riskCostAnnual, Zero)
    /\ InUnit(body.riskReductionPct)
    /\ IsFinite(body.licenseCostAnnual) /\ Ge(body.licenseCostAnnual, Zero)
    /\ IsFinite(body.implementationOneTime)
    /\ Ge(body.implementationOneTime, Zero)

(***************************************************************************)
(* src/lib/roi-calculator.ts                                                *)
(***************************************************************************)
\* The unrounded sums of calculateScenario (lines 17-36).
laborSavings(inputs) ==
    Mul(Mul(Mul(inputs.nPeople, inputs.hoursSavedPerPersonPerMonth), Twelve),
        inputs.costPerHour)
qualitySavings(inputs) == Mul(inputs.errorCostAnnual, inputs.errorReductionPct)
cloudSavings(inputs) == Mul(inputs.cloudSpendAnnual, inputs.cloudReductionPct)
riskAvoidance(inputs) == Mul(inputs.riskCostAnnual, inputs.riskReductionPct)

totalBenefit(inputs) ==
    Add(Add(Add(laborSavings(inputs), qualitySavings(inputs)),
            cloudSavings(inputs)), riskAvoidance(inputs))

totalCosts(inputs) == Add(inputs.licenseCostAnnual, inputs.implementationOneTime)

\* Mutant: the ROI division guarded by totalCosts >= 0 instead of > 0.
roiPct_noGuard(benefit, costs) ==
    IF Ge(costs, Zero)
    THEN Mul(Div(Sub(benefit, costs), costs), Hundred)
    ELSE Zero

\* ROI percentage of a benefit and a cost (line 32).
roiPct(benefit, costs) ==
    IF Gt(costs, Zero)
    THEN Mul(Div(Sub(benefit, costs), costs), Hundred)
    ELSE Zero

\* Mutant: the payback period in years, costs over the annual benefit.
paybackMonths_inYears(benefit, costs) ==
    IF Gt(benefit, Zero) THEN Div(costs, benefit) ELSE Infinity

\* Mutant: the payback division without the monthlyBenefit > 0 guard.
paybackMonths_noGuard(benefit, costs) == Div(costs, Div(benefit, Twelve))

\* Payback period in months of a benefit and a cost (lines 35-36).
paybackMonths(benefit, costs) ==
    LET monthlyBenefit == Div(benefit, Twelve)
    IN  IF Gt(monthlyBenefit, Zero)
        THEN Div(costs, monthlyBenefit)
        ELSE Infinity

\* Math.round(x * 10) / 10
RoundTenth(x) == Div(MathRound(Mul(x, Ten)), Ten)

\* Mutant: year1Net is taken from the rounded benefit and the rounded costs.
calculateScenario_roundsEarly(inputs) ==
    LET benefit == totalBenefit(inputs)
        costs == totalCosts(inputs)
        year1Net == Sub(MathRound(benefit), MathRound(costs))
    IN  [ totalBenefit  |-> MathRound(benefit),
          year1Net      |-> MathRound(year1Net),
          roiPct        |-> RoundTenth(roiPct(benefit, costs)),
          paybackMonths |-> RoundTenth(paybackMonths(benefit, costs)) ]

calculateScenario(inputs) ==
    LET benefit == totalBenefit(inputs)
        costs == totalCosts(inputs)
        year1Net == Sub(benefit, costs)
    IN  [ totalBenefit  |-> MathRound(benefit),
          year1Net      |-> MathRound(year1Net),
          roiPct        |-> RoundTenth(roiPct(benefit, costs)),
          paybackMonths |-> RoundTenth(paybackMonths(benefit, costs)) ]

\* Mutant: the license cost is scaled with the benefit fields.
scaleInputs_scalesCosts(inputs, scaleFactor) ==
    [ inputs EXCEPT
        !.hoursSavedPerPersonPerMonth =
            Mul(inputs.hoursSavedPerPersonPerMonth, scaleFactor),
        !.errorReductionPct = MathMin(One, Mul(inputs.errorReductionPct, scaleFactor)),
        !.cloudReductionPct = MathMin(One, Mul(inputs.cloudReductionPct, scaleFactor)),
        !.riskReductionPct = MathMin(One, Mul(inputs.riskReductionPct, scaleFactor)),
        !.licenseCostAnnual = Mul(inputs.licenseCostAnnual, scaleFactor) ]

\* Mutant: the error reduction percentage is scaled without the ceiling.
scaleInputs_noClamp(inputs, scaleFactor) ==
    [ inputs EXCEPT
        !.hoursSavedPerPersonPerMonth =
            Mul(inputs.hoursSavedPerPersonPerMonth, scaleFactor),
        !.errorReductionPct = Mul(inputs.errorReductionPct, scaleFactor),
        !.cloudReductionPct = MathMin(One, Mul(inputs.cloudReductionPct, scaleFactor)),
        !.riskReductionPct = MathMin(One, Mul(inputs.riskReductionPct, scaleFactor)) ]

\* Mutant: the hours are clamped to 1 like the percentages.
scaleInputs_clampsHours(inputs, scaleFactor) ==
    [ inputs EXCEPT
        !.hoursSavedPerPersonPerMonth =
            MathMin(One, Mul(inputs.hoursSavedPerPersonPerMonth, scaleFactor)),
        !.errorReductionPct = MathMin(One, Mul(inputs.errorReductionPct, scaleFactor)),
        !.cloudReductionPct = MathMin(One, Mul(inputs.cloudReductionPct, scaleFactor)),
        !.riskReductionPct = MathMin(One, Mul(inputs.riskReductionPct, scaleFactor)) ]

scaleInputs(inputs, scaleFactor) ==
    [ inputs EXCEPT
        !.hoursSavedPerPersonPerMonth =
            Mul(inputs.hoursSavedPerPersonPerMonth, scaleFactor),
        !.errorReductionPct = MathMin(One, Mul(inputs.errorReductionPct, scaleFactor)),
        !.cloudReductionPct = MathMin(One, Mul(inputs.cloudReductionPct, scaleFactor)),
        !.riskReductionPct = MathMin(One, Mul(inputs.riskReductionPct, scaleFactor)) ]

\* The sensitivity factors written in calculateRoiScenarios.
\* Mutant: a conservative factor of 0.5.
LowFactor_half == Rat(1, 2)

LowFactor == Rat(3, 4)
HighFactor == Rat(5, 4)

\* The outcome of a call: an exception with its message, or the returned value.
Threw(msg) == [threw |-> TRUE, message |-> msg, value |-> <<>>]
Returned(v) == [threw |-> FALSE, message |-> "", value |-> <<v>>]

\* Mutant: the low and high scenarios take each other's factor.
calculateRoiScenarios_swapped(inputs) ==
    IF Le(inputs.nPeople, Zero)
    THEN Threw("Number of people must be greater than 0")
    ELSE IF Lt(inputs.costPerHour, Zero)
    THEN Threw("Cost per hour cannot be negative")
    ELSE Returned([ low        |-> calculateScenario(scaleInputs(inputs, HighFactor)),
                    mostLikely |-> calculateScenario(inputs),
                    high       |-> calculateScenario(scaleInputs(inputs, LowFactor)) ])

\* Mutant: the people check is nPeople < 0, so nPeople = 0 is accepted.
calculateRoiScenarios_acceptsZero(inputs) ==
    IF Lt(inputs.nPeople, Zero)
    THEN Threw("Number of people must be greater than 0")
    ELSE IF Lt(inputs.costPerHour, Zero)
    THEN Threw("Cost per hour cannot be negative")
    ELSE Returned([ low        |-> calculateScenario(scaleInputs(inputs, LowFactor)),
                    mostLikely |-> calculateScenario(inputs),
                    high       |-> calculateScenario(scaleInputs(inputs, HighFactor)) ])

calculateRoiScenarios(inputs) ==
    IF Le(inputs.nPeople, Zero)
    THEN Threw("Number of people must be greater than 0")
    ELSE IF Lt(inputs.costPerHour, Zero)
    THEN Threw("Cost per hour cannot be negative")
    ELSE Returned([ low        |-> calculateScenario(scaleInputs(inputs, LowFactor)),
                    mostLikely |-> calculateScenario(inputs),
                    high       |-> calculateScenario(scaleInputs(inputs, HighFactor)) ])

\* Mutant: the text is pushed whether or not the condition holds.
Warn_unconditional(cond, text) == <<text>>

\* validateRoiInputs: the warnings of the six checks, in check order.
Warn(cond, text) == IF cond THEN <<text>> ELSE <<>>

\* Mutant: the checks are chained, only the first breached one is reported.
validateRoiInputs_firstOnly(inputs) ==
    IF Gt(inputs.hoursSavedPerPersonPerMonth, Int2Rat(160))
    THEN <<"Hours saved per month seems high (>160 hours)">>
    ELSE IF Gt(inputs.costPerHour, Int2Rat(200))
    THEN <<"Cost per hour seems high (>$200)">>
    ELSE IF Gt(inputs.errorReductionPct, Rat(9, 10))
    THEN <<"Error reduction >90% may be optimistic">>
    ELSE IF Gt(inputs.cloudReductionPct, Rat(5, 10))
    THEN <<"Cloud cost reduction >50% may be optimistic">>
    ELSE IF Gt(inputs.riskReductionPct, Rat(8, 10))
    THEN <<"Risk reduction >80% may be optimistic">>
    ELSE IF Lt(totalBenefit(inputs), inputs.licenseCostAnnual)
    THEN <<"Total benefits may not justify license costs">>
    ELSE <<>>

validateRoiInputs(inputs) ==
    Warn(Gt(inputs.hoursSavedPerPersonPerMonth, Int2Rat(160)),
         "Hours saved per month seems high (>160 hours)")
    \o Warn(Gt(inputs.costPerHour, Int2Rat(200)),
            "Cost per hour seems high (>$200)")
    \o Warn(Gt(inputs.errorReductionPct, Rat(9, 10)),
            "Error reduction >90% may be optimistic")
    \o Warn(Gt(inputs.cloudReductionPct, Rat(5, 10)),
            "Cloud cost reduction >50% may be optimistic")
    \o Warn(Gt(inputs.riskReductionPct, Rat(8, 10)),
            "Risk reduction >80% may be optimistic")
    \o Warn(Lt(totalBenefit(inputs), inputs.licenseCostAnnual),
            "Total benefits may not justify license costs")

(***************************************************************************)
(* src/lib/errors.ts                                                        *)
(***************************************************************************)
\* An exception: a ZodError, or an Error with its message kind.
ZodError == [class |-> "ZodError", message |-> "Validation failed"]
ErrorOf(msg) == [class |-> "Error", message |-> msg]
NoResponse == [status |-> 0, title |-> ""]

problemResponse(status, title) == [status |-> status, title |-> title]

\* The messages thrown in the modelled code, and the words each contains
\* (error.message.includes(word)).
ForbiddenMessage == "Forbidden: User does not have access to project"
MessageIncludes(msg, word) == word = "Forbidden" /\ msg = ForbiddenMessage

\* handleApiError(error): the response for an exception caught by a handler.
handleApiError(error, nodeEnvironment) ==
    IF error.class = "ZodError"
    THEN problemResponse(400, "Validation Error")
    ELSE IF nodeEnvironment = "production"
    THEN problemResponse(500, "Internal Server Error")
    ELSE IF MessageIncludes(error.message, "Unauthorized")
    THEN problemResponse(401, "Unauthorized")
    ELSE IF MessageIncludes(error.message, "Forbidden")
    THEN problemResponse(403, "Forbidden")
    ELSE problemResponse(500, "Internal Server Error")

(***************************************************************************)
(* State                                                                    *)
(*                                                                          *)
(* Engine: one caller's RoiInputs record and what each function of          *)
(* roi-calculator.ts returned for it.  An empty sequence means "not called  *)
(* yet", a one-element sequence holds the result.                           *)
(***************************************************************************)
VARIABLES
    roiInputs,     \* the caller's RoiInputs record
    scaleFactor,   \* the factor passed to scaleInputs
    scaled,        \* <<scaleInputs(roiInputs, scaleFactor)>>
    scenario,      \* <<calculateScenario(scaled[1])>>
    roiOutput,     \* <<outcome of calculateRoiScenarios(roiInputs)>>
    warnings,      \* <<validateRoiInputs(roiInputs)>>
    \* Concurrent callers of the engine: each caller's own RoiInputs object
    \* and the frame (position and local variables) of its invocation.
    callerInputs,
    calls,
    \* The evidence pipeline of the project.
    evidence,          \* table evidence of the project, in order of creation
    evidenceQueue,     \* queue 'evidence-processing': the fetch jobs
    nlpQueue,          \* queue 'nlp-processing': the summarization jobs
    evidenceRequests,  \* the state of each POST /evidence handler
    \* The tables the phase handlers of the project write.
    pains,            \* table pains: number of the project's pain points
    painEvidence,     \* table pain_evidence: number of evidence links
    stakeholders,     \* table stakeholders: rows of every project
    outreachAssets,   \* table outreach_assets: number of the project's assets
    projectExports,   \* table project_exports: number of the project's exports
    \* The export's completeness score.
    exportData,       \* the ExportData passed to calculateCompleteness
    completeness,     \* <<calculateCompleteness(exportData)>>
    \* The application: one project, its tables, and the requests in flight.
    nodeEnv,          \* process.env.NODE_ENV
    projectStatus,    \* project.status
    userRoles,        \* table user_roles: user -> role, "none" when no row
    roiCalculations,  \* table roi_calculations of the project, oldest first
    auditLogs,        \* table audit_logs: number of rows per action
    requests          \* the state of each request handler

engineVars == <<roiInputs, scaleFactor, scaled, scenario, roiOutput, warnings>>
callVars == <<callerInputs, calls>>
evidenceVars == <<evidence, evidenceQueue, nlpQueue, evidenceRequests>>
apiVars == <<nodeEnv, projectStatus, userRoles, roiCalculations, auditLogs, requests>>
phaseVars == <<pains, painEvidence, stakeholders, outreachAssets, projectExports>>
exportVars == <<exportData, completeness>>
vars == <<roiInputs, scaleFactor, scaled, scenario, roiOutput, warnings,
          callerInputs, calls,
          evidence, evidenceQueue, nlpQueue, evidenceRequests,
          pains, painEvidence, stakeholders, outreachAssets, projectExports,
          exportData, completeness,
          nodeEnv, projectStatus, userRoles, roiCalculations, auditLogs, requests>>

(***************************************************************************)
(* The application's data                                                   *)
(***************************************************************************)
\* src/lib/schemas.ts: Project.status
ProjectStatus ==
    {"INIT", "INDUSTRY", "COMPANY", "PAIN", "ROI", "STAKE", "OUTREACH", "QA", "READY"}

\* The project's owner and another signed-in user; NoUser is auth() without
\* a session (userId null).
OwnerId == "owner"
Users == {"owner", "member"}
NoUser == "anonymous"
Roles == {"ADMIN", "USER", "GUEST"}

Requests == {1, 2}

\* The handler of GET /roi.
Readers == {3}

\* The handlers of POST /pain, POST /stakeholders, POST /outreach and
\* POST /export.
PainRequests == {4}
StakeholderRequests == {5}
OutreachRequests == {6}
ExportRequests == {7}
AllRequests ==
    Requests \cup Readers \cup PainRequests \cup StakeholderRequests
        \cup OutreachRequests \cup ExportRequests

\* src/unnamed/part_002, ExportData as calculateCompleteness reads it: the
\* lengths of evidence, pains, stakeholders and outreachAssets, and whether
\* roiOutput is set.  NoExportData is the export of an empty project.
NoExportData ==
    [ evidence |-> 0, pains |-> 0, roiOutput |-> FALSE,
      stakeholders |-> 0, outreachAssets |-> 0 ]

\* The project, and a stakeholder row of another project (its id is 0; the
\* rows created later get the ids 1, 2, ...).
ProjectId == "project"
OtherStakeholder == [id |-> 0, projectId |-> "other", persona |-> "Economic_Decider"]

\* Request bodies of POST /roi: the example of the specification, the
\* example with a cost per hour beyond the warning threshold, a valid record
\* without any benefit or cost, and three records the schema rejects
\* (nPeople = 0, costPerHour = -1, errorReductionPct = 1.5).
ExampleInputs ==
    [ nPeople |-> Int2Rat(10),
      costPerHour |-> Int2Rat(50),
      hoursSavedPerPersonPerMonth |-> Int2Rat(5),
      errorCostAnnual |-> Int2Rat(100000),
      errorReductionPct |-> Rat(3, 10),
      cloudSpendAnnual |-> Int2Rat(50000),
      cloudReductionPct |-> Rat(2, 10),
      riskCostAnnual |-> Int2Rat(20000),
      riskReductionPct |-> Rat(5, 10),
      licenseCostAnnual |-> Int2Rat(60000),
      implementationOneTime |-> Int2Rat(10000) ]

NothingInputs ==
    [ nPeople |-> One, costPerHour |-> Zero,
      hoursSavedPerPersonPerMonth |-> Zero,
      errorCostAnnual |-> Zero, errorReductionPct |-> Zero,
      cloudSpendAnnual |-> Zero, cloudReductionPct |-> Zero,
      riskCostAnnual |-> Zero, riskReductionPct |-> Zero,
      licenseCostAnnual |-> Zero, implementationOneTime |-> Zero ]

RequestBodies ==
    { ExampleInputs,
      [ExampleInputs EXCEPT !.costPerHour = Int2Rat(250)],
      NothingInputs,
      [ExampleInputs EXCEPT !.nPeople = Zero],
      [ExampleInputs EXCEPT !.costPerHour = Rat(-1, 1)],
      [ExampleInputs EXCEPT !.errorReductionPct = Rat(3, 2)] }

\* JSON.stringify of a scenario: a finite number is written as it is, and
\* Infinity or NaN as null (the empty sequence here).
JSONStringify(s) ==
    [f \in DOMAIN s |-> IF IsFinite(s[f]) THEN <<s[f]>> ELSE <<>>]

\* The JavaScript value null, which is no number.
Null == [n |-> 0, d |-> -1]

\* JSON.parse of a stored scenario: a number for a number, null for null.
JSONParse(text) ==
    [f \in DOMAIN text |-> IF text[f] = <<>> THEN Null ELSE text[f][1]]

\* src/lib/audit.ts: the actions the modelled handlers log.
AuditActions ==
    {"API_GET", "API_POST", "CALCULATE_ROI", "CREATE_EVIDENCE", "CREATE_PAIN",
     "CREATE_STAKEHOLDER", "GENERATE_OUTREACH", "GENERATE_EXPORT"}

\* A request handler that has not started.
IdleRequest ==
    [ pc |-> "idle", userId |-> NoUser, body |-> <<>>,
      warnings |-> <<>>, roiOutput |-> <<>>, roiCalculation |-> <<>>,
      project |-> <<>>, updated |-> FALSE, response |-> NoResponse,
      data |-> <<>>, result |-> <<>>, record |-> <<>> ]

\* The concurrent callers of the engine, and the frame of an invocation
\* that has not started: the function called, its position, and its local
\* variables (lowScenario, mostLikelyScenario, highScenario of
\* calculateRoiScenarios; warnings and the next check of validateRoiInputs;
\* the record scaleInputs returned).
Callers == {1, 2}
EngineFunctions == {"calculateRoiScenarios", "validateRoiInputs", "scaleInputs"}
IdleCall ==
    [ pc |-> "idle", function |-> "", scaleFactor |-> One,
      lowScenario |-> <<>>, mostLikelyScenario |-> <<>>, highScenario |-> <<>>,
      warnings |-> <<>>, check |-> 1,
      returned |-> <<>> ]

\* The handlers of POST /evidence, and one that has not started.
EvidenceRequests == {1, 2}
IdleEvidenceRequest ==
    [ pc |-> "idle", userId |-> NoUser, body |-> <<>>, contentHash |-> <<>>,
      evidenceId |-> <<>>, response |-> NoResponse ]

\* Bounds of the engine's input space.
MaxPeople == 2

PeopleValues == {Int2Rat(k) : k \in 0..MaxPeople}
CostPerHourValues == {Rat(-1, 1), Zero, Rat(3, 2)}
HoursValues == {Rat(-1, 2), Zero, Int2Rat(2)}
ErrorCostValues == {Zero, Int2Rat(3)}
ErrorPctValues == {Zero, Rat(9, 10)}
CloudSpendValues == {Zero, Int2Rat(5)}
CloudPctValues == {Zero, One}
RiskCostValues == {Zero, Rat(1, 2)}
RiskPctValues == {Zero, Rat(1, 2)}
LicenseValues == {Zero, Rat(1, 4)}
ImplementationValues == {Zero, Int2Rat(7)}

EngineInputs ==
    [ nPeople : PeopleValues,
      costPerHour : CostPerHourValues,
      hoursSavedPerPersonPerMonth : HoursValues,
      errorCostAnnual : ErrorCostValues,
      errorReductionPct : ErrorPctValues,
      cloudSpendAnnual : CloudSpendValues,
      cloudReductionPct : CloudPctValues,
      riskCostAnnual : RiskCostValues,
      riskReductionPct : RiskPctValues,
      licenseCostAnnual : LicenseValues,
      implementationOneTime : ImplementationValues ]

\* Factors scaleInputs is applied with: 0.75 and 1.25 as in
\* calculateRoiScenarios, and the identity 1.0.
ScaleFactors == {Rat(3, 4), One, Rat(5, 4)}

EngineInit ==
    /\ roiInputs \in EngineInputs
    /\ scaleFactor = One
    /\ scaled = <<>>
    /\ scenario = <<>>
    /\ roiOutput = <<>>
    /\ warnings = <<>>
    /\ callerInputs = [c \in Callers |-> NothingInputs]
    /\ calls = [c \in Callers |-> IdleCall]
    /\ evidence = <<>>
    /\ evidenceQueue = <<>>
    /\ nlpQueue = <<>>
    /\ evidenceRequests = [r \in EvidenceRequests |-> IdleEvidenceRequest]
    /\ pains = 0
    /\ painEvidence = 0
    /\ stakeholders = {OtherStakeholder}
    /\ outreachAssets = 0
    /\ projectExports = 0
    /\ exportData = NoExportData
    /\ completeness = <<>>
    /\ nodeEnv = "development"
    /\ projectStatus = "INIT"
    /\ userRoles = [u \in Users |-> "none"]
    /\ roiCalculations = <<>>
    /\ auditLogs = [a \in AuditActions |-> 0]
    /\ requests = [r \in AllRequests |-> IdleRequest]

CallScaleInputs(f) ==
    /\ scaled = <<>>
    /\ scaleFactor' = f
    /\ scaled' = <<scaleInputs(roiInputs, f)>>
    /\ UNCHANGED <<roiInputs, scenario, roiOutput, warnings>>
    /\ UNCHANGED apiVars
    /\ UNCHANGED callVars
    /\ UNCHANGED evidenceVars
    /\ UNCHANGED exportVars
    /\ UNCHANGED phaseVars

CallCalculateScenario ==
    /\ scaled # <<>>
    /\ scenario = <<>>
    /\ scenario' = <<calculateScenario(scaled[1])>>
    /\ UNCHANGED <<roiInputs, scaleFactor, scaled, roiOutput, warnings>>
    /\ UNCHANGED apiVars
    /\ UNCHANGED callVars
    /\ UNCHANGED evidenceVars
    /\ UNCHANGED exportVars
    /\ UNCHANGED phaseVars

CallCalculateRoiScenarios ==
    /\ roiOutput = <<>>
    /\ roiOutput' = <<calculateRoiScenarios(roiInputs)>>
    /\ UNCHANGED <<roiInputs, scaleFactor, scaled, scenario, warnings>>
    /\ UNCHANGED apiVars
    /\ UNCHANGED callVars
    /\ UNCHANGED evidenceVars
    /\ UNCHANGED exportVars
    /\ UNCHANGED phaseVars

EngineNext ==
    \/ \E f \in ScaleFactors : CallScaleInputs(f)
    \/ CallCalculateScenario
    \/ CallCalculateRoiScenarios

SpecEngine == EngineInit /\ [][EngineNext]_vars

(***************************************************************************)
(* The reasonableness heuristics: validateRoiInputs and calculateRoiScenarios *)
(* called on records around the six thresholds.  Every field takes its        *)
(* value of the specification's example, the threshold itself, or a value     *)
(* beyond it; nPeople 0 fails the hard validation.                            *)
(***************************************************************************)
WarningInputs ==
    [ nPeople : {Zero, Int2Rat(10)},
      costPerHour : {Int2Rat(50), Int2Rat(200), Int2Rat(250)},
      hoursSavedPerPersonPerMonth : {Int2Rat(5), Int2Rat(160), Int2Rat(161)},
      errorCostAnnual : {Int2Rat(100000)},
      errorReductionPct : {Rat(3, 10), Rat(9, 10), Rat(95, 100)},
      cloudSpendAnnual : {Int2Rat(50000)},
      cloudReductionPct : {Rat(2, 10), Rat(5, 10), Rat(6, 10)},
      riskCostAnnual : {Int2Rat(20000)},
      riskReductionPct : {Rat(5, 10), Rat(8, 10), Rat(9, 10)},
      licenseCostAnnual : {Int2Rat(60000), Int2Rat(80000), Int2Rat(100000000)},
      implementationOneTime : {Int2Rat(10000)} ]

WarningsInit ==
    /\ roiInputs \in WarningInputs
    /\ scaleFactor = One
    /\ scaled = <<>>
    /\ scenario = <<>>
    /\ roiOutput = <<>>
    /\ warnings = <<>>
    /\ callerInputs = [c \in Callers |-> NothingInputs]
    /\ calls = [c \in Callers |-> IdleCall]
    /\ evidence = <<>>
    /\ evidenceQueue = <<>>
    /\ nlpQueue = <<>>
    /\ evidenceRequests = [r \in EvidenceRequests |-> IdleEvidenceRequest]
    /\ pains = 0
    /\ painEvidence = 0
    /\ stakeholders = {OtherStakeholder}
    /\ outreachAssets = 0
    /\ projectExports = 0
    /\ exportData = NoExportData
    /\ completeness = <<>>
    /\ nodeEnv = "development"
    /\ projectStatus = "INIT"
    /\ userRoles = [u \in Users |-> "none"]
    /\ roiCalculations = <<>>
    /\ auditLogs = [a \in AuditActions |-> 0]
    /\ requests = [r \in AllRequests |-> IdleRequest]

CallValidateRoiInputs ==
    /\ warnings = <<>>
    /\ warnings' = <<validateRoiInputs(roiInputs)>>
    /\ UNCHANGED <<roiInputs, scaleFactor, scaled, scenario, roiOutput>>
    /\ UNCHANGED apiVars
    /\ UNCHANGED callVars
    /\ UNCHANGED evidenceVars
    /\ UNCHANGED exportVars
    /\ UNCHANGED phaseVars

WarningsNext ==
    \/ CallValidateRoiInputs
    \/ CallCalculateRoiScenarios

SpecWarnings == WarningsInit /\ [][WarningsNext]_vars

(***************************************************************************)
(* Concurrent invocations of the engine.  Every caller passes its own       *)
(* RoiInputs object; an invocation runs statement by statement on its own   *)
(* frame, interleaved with the other caller's.  roi-calculator.ts declares  *)
(* no variable outside its functions, so the frames share nothing.          *)
(***************************************************************************)
\* The objects the callers pass: the example, the example with a cost per
\* hour of 250, a record without benefit or cost, a record with hours and
\* percentages that scale beyond the thresholds, and one with nPeople 0.
CallInputs ==
    { ExampleInputs,
      [ExampleInputs EXCEPT !.costPerHour = Int2Rat(250)],
      NothingInputs,
      [ExampleInputs EXCEPT !.hoursSavedPerPersonPerMonth = Int2Rat(161),
                            !.errorReductionPct = Rat(95, 100)],
      [ExampleInputs EXCEPT !.nPeople = Zero] }

CallsInit ==
    /\ roiInputs = NothingInputs
    /\ scaleFactor = One
    /\ scaled = <<>>
    /\ scenario = <<>>
    /\ roiOutput = <<>>
    /\ warnings = <<>>
    /\ callerInputs \in [Callers -> CallInputs]
    /\ calls = [c \in Callers |-> IdleCall]
    /\ evidence = <<>>
    /\ evidenceQueue = <<>>
    /\ nlpQueue = <<>>
    /\ evidenceRequests = [r \in EvidenceRequests |-> IdleEvidenceRequest]
    /\ pains = 0
    /\ painEvidence = 0
    /\ stakeholders = {OtherStakeholder}
    /\ outreachAssets = 0
    /\ projectExports = 0
    /\ exportData = NoExportData
    /\ completeness = <<>>
    /\ nodeEnv = "development"
    /\ projectStatus = "INIT"
    /\ userRoles = [u \in Users |-> "none"]
    /\ roiCalculations = <<>>
    /\ auditLogs = [a \in AuditActions |-> 0]
    /\ requests = [r \in AllRequests |-> IdleRequest]

\* The caller c calls function f of the engine with its object.
Invoke(c, f) ==
    /\ calls[c].pc = "idle"
    /\ calls' = [calls EXCEPT ![c].pc = f, ![c].function = f]
    /\ UNCHANGED callerInputs
    /\ UNCHANGED <<engineVars, apiVars>>
    /\ UNCHANGED evidenceVars
    /\ UNCHANGED exportVars
    /\ UNCHANGED phaseVars

\* calculateRoiScenarios: the two checks (lines 74-80).
CalculateRoiScenariosValidate(c) ==
    /\ calls[c].pc = "calculateRoiScenarios"
    /\ calls' =
           IF Le(callerInputs[c].nPeople, Zero)
           THEN [calls EXCEPT ![c].pc = "done",
                      ![c].returned = <<Threw("Number of people must be greater than 0")>>]
           ELSE IF Lt(callerInputs[c].costPerHour, Zero)
           THEN [calls EXCEPT ![c].pc = "done",
                      ![c].returned = <<Threw("Cost per hour cannot be negative")>>]
           ELSE [calls EXCEPT ![c].pc = "lowScenario"]
    /\ UNCHANGED callerInputs
    /\ UNCHANGED <<engineVars, apiVars>>
    /\ UNCHANGED evidenceVars
    /\ UNCHANGED exportVars
    /\ UNCHANGED phaseVars

\* const lowScenario = calculateScenario(scaleInputs(inputs, 0.75)) (line 83)
CalculateRoiScenariosLow(c) ==
    /\ calls[c].pc = "lowScenario"
    /\ calls' = [calls EXCEPT
                    ![c].lowScenario =
                        <<calculateScenario(scaleInputs(callerInputs[c], LowFactor))>>,
                    ![c].pc = "mostLikelyScenario"]
    /\ UNCHANGED callerInputs
    /\ UNCHANGED <<engineVars, apiVars>>
    /\ UNCHANGED evidenceVars
    /\ UNCHANGED exportVars
    /\ UNCHANGED phaseVars

\* const mostLikelyScenario = calculateScenario(inputs) (line 84)
CalculateRoiScenariosMostLikely(c) ==
    /\ calls[c].pc = "mostLikelyScenario"
    /\ calls' = [calls EXCEPT
                    ![c].mostLikelyScenario = <<calculateScenario(callerInputs[c])>>,
                    ![c].pc = "highScenario"]
    /\ UNCHANGED callerInputs
    /\ UNCHANGED <<engineVars, apiVars>>
    /\ UNCHANGED evidenceVars
    /\ UNCHANGED exportVars
    /\ UNCHANGED phaseVars

\* Mutant: the inputs being scaled are kept in a variable of the module,
\* which a caller in flight overwrites.
CalculateRoiScenariosHigh_sharedInputs(c) ==
    /\ calls[c].pc = "highScenario"
    /\ LET inFlight == {o \in Callers \ {c} : calls[o].pc \notin {"idle", "done"}}
           current == IF inFlight = {} THEN c ELSE CHOOSE o \in inFlight : TRUE
       IN  calls' = [calls EXCEPT
                        ![c].highScenario =
                            <<calculateScenario(scaleInputs(callerInputs[current], HighFactor))>>,
                        ![c].pc = "return"]
    /\ UNCHANGED callerInputs
    /\ UNCHANGED <<engineVars, apiVars>>
    /\ UNCHANGED evidenceVars
    /\ UNCHANGED exportVars
    /\ UNCHANGED phaseVars

\* const highScenario = calculateScenario(scaleInputs(inputs, 1.25)) (line 85)
CalculateRoiScenariosHigh(c) ==
    /\ calls[c].pc = "highScenario"
    /\ calls' = [calls EXCEPT
                    ![c].highScenario =
                        <<calculateScenario(scaleInputs(callerInputs[c], HighFactor))>>,
                    ![c].pc = "return"]
    /\ UNCHANGED callerInputs
    /\ UNCHANGED <<engineVars, apiVars>>
    /\ UNCHANGED evidenceVars
    /\ UNCHANGED exportVars
    /\ UNCHANGED phaseVars

\* const result = { low, mostLikely, high }; return result (lines 87-94)
CalculateRoiScenariosReturn(c) ==
    /\ calls[c].pc = "return"
    /\ calls' = [calls EXCEPT
                    ![c].returned =
                        <<Returned([ low        |-> calls[c].lowScenario[1],
                                     mostLikely |-> calls[c].mostLikelyScenario[1],
                                     high       |-> calls[c].highScenario[1] ])>>,
                    ![c].pc = "done"]
    /\ UNCHANGED callerInputs
    /\ UNCHANGED <<engineVars, apiVars>>
    /\ UNCHANGED evidenceVars
    /\ UNCHANGED exportVars
    /\ UNCHANGED phaseVars

\* The i-th if statement of validateRoiInputs: what it pushes.
validateRoiInputsCheck(i, inputs) ==
    CASE i = 1 -> Warn(Gt(inputs.hoursSavedPerPersonPerMonth, Int2Rat(160)),
                       "Hours saved per month seems high (>160 hours)")
      [] i = 2 -> Warn(Gt(inputs.costPerHour, Int2Rat(200)),
                       "Cost per hour seems high (>$200)")
      [] i = 3 -> Warn(Gt(inputs.errorReductionPct, Rat(9, 10)),
                       "Error reduction >90% may be optimistic")
      [] i = 4 -> Warn(Gt(inputs.cloudReductionPct, Rat(5, 10)),
                       "Cloud cost reduction >50% may be optimistic")
      [] i = 5 -> Warn(Gt(inputs.riskReductionPct, Rat(8, 10)),
                       "Risk reduction >80% may be optimistic")
      [] i = 6 -> Warn(Lt(totalBenefit(inputs), inputs.licenseCostAnnual),
                       "Total benefits may not justify license costs")

\* validateRoiInputs: the next if statement, and return warnings after the
\* sixth (lines 103-136).
ValidateRoiInputsStep(c) ==
    /\ calls[c].pc = "validateRoiInputs"
    /\ LET pushed == calls[c].warnings
                         \o validateRoiInputsCheck(calls[c].check, callerInputs[c])
       IN  calls' =
               IF calls[c].check < 6
               THEN [calls EXCEPT ![c].warnings = pushed, ![c].check = @ + 1]
               ELSE [calls EXCEPT ![c].warnings = pushed,
                                  ![c].returned = <<pushed>>,
                                  ![c].pc = "done"]
    /\ UNCHANGED callerInputs
    /\ UNCHANGED <<engineVars, apiVars>>
    /\ UNCHANGED evidenceVars
    /\ UNCHANGED exportVars
    /\ UNCHANGED phaseVars

\* Mutant: scaleInputs writes the scaled values into the object it is given.
ScaleInputsReturn_inPlace(c, f) ==
    /\ calls[c].pc = "scaleInputs"
    /\ callerInputs' = [callerInputs EXCEPT ![c] = scaleInputs(callerInputs[c], f)]
    /\ calls' = [calls EXCEPT ![c].scaleFactor = f,
                              ![c].returned = <<scaleInputs(callerInputs[c], f)>>,
                              ![c].pc = "done"]
    /\ UNCHANGED <<engineVars, apiVars>>
    /\ UNCHANGED evidenceVars
    /\ UNCHANGED exportVars
    /\ UNCHANGED phaseVars

\* scaleInputs(inputs, scaleFactor): return { ...inputs, ... } (lines 55-62)
ScaleInputsReturn(c, f) ==
    /\ calls[c].pc = "scaleInputs"
    /\ calls' = [calls EXCEPT ![c].scaleFactor = f,
                              ![c].returned = <<scaleInputs(callerInputs[c], f)>>,
                              ![c].pc = "done"]
    /\ UNCHANGED callerInputs
    /\ UNCHANGED <<engineVars, apiVars>>
    /\ UNCHANGED evidenceVars
    /\ UNCHANGED exportVars
    /\ UNCHANGED phaseVars

CallsNext ==
    \E c \in Callers :
        \/ \E f \in EngineFunctions : Invoke(c, f)
        \/ CalculateRoiScenariosValidate(c)
        \/ CalculateRoiScenariosLow(c)
        \/ CalculateRoiScenariosMostLikely(c)
        \/ CalculateRoiScenariosHigh(c)
        \/ CalculateRoiScenariosReturn(c)
        \/ ValidateRoiInputsStep(c)
        \/ \E f \in {LowFactor, HighFactor} : ScaleInputsReturn(c, f)

SpecCalls == CallsInit /\ [][CallsNext]_vars

(***************************************************************************)
(* src/lib/auth.ts                                                          *)
(***************************************************************************)
\* getUserRole(userId): the role of the user's row, created as USER when the
\* user has none.
getUserRole(roles, userId) ==
    IF roles[userId] = "none" THEN "USER" ELSE roles[userId]

\* The user_roles table after getUserRole(userId).
AfterGetUserRole(roles, userId) ==
    IF roles[userId] = "none" THEN [roles EXCEPT ![userId] = "USER"] ELSE roles

\* hasProjectAccess(userId, projectId, accessType) for the one project.
hasProjectAccess(roles, userId, accessType) ==
    IF OwnerId = userId THEN TRUE
    ELSE CASE accessType = "read" -> getUserRole(roles, userId) \in {"ADMIN", "USER"}
           [] accessType = "write" -> getUserRole(roles, userId) \in {"ADMIN", "USER"}
           [] accessType = "admin" -> getUserRole(roles, userId) = "ADMIN"
           [] OTHER -> FALSE

(***************************************************************************)
(* src/app/api/projects/[id]/roi/route.ts: POST                             *)
(* One action per stretch of the handler between two awaits.                *)
(***************************************************************************)
Respond(r, resp) ==
    [requests EXCEPT ![r].pc = "done", ![r].response = resp]

\* The request arrives: auth() and await requireProjectAccess(userId,
\* params.id, 'write') (lines 70-75).  Without a session it is answered 401.
\* The handlers are interchangeable, so they are started in a fixed order.
PostRoiAccess(r, u) ==
    /\ requests[r].pc = "idle"
    /\ \A q \in Requests : q < r => requests[q].pc # "idle"
    /\ IF u = NoUser
       THEN /\ requests' = Respond(r, problemResponse(401, "Unauthorized"))
            /\ UNCHANGED userRoles
       ELSE /\ userRoles' = IF u = OwnerId THEN userRoles
                            ELSE AfterGetUserRole(userRoles, u)
            /\ requests' =
                   IF hasProjectAccess(userRoles, u, "write")
                   THEN [requests EXCEPT ![r].pc = "log", ![r].userId = u]
                   ELSE [Respond(r, handleApiError(ErrorOf(ForbiddenMessage), nodeEnv))
                            EXCEPT ![r].userId = u]
    /\ UNCHANGED <<nodeEnv, projectStatus, roiCalculations, auditLogs>>
    /\ UNCHANGED engineVars
    /\ UNCHANGED callVars
    /\ UNCHANGED evidenceVars
    /\ UNCHANGED exportVars
    /\ UNCHANGED phaseVars

\* await logApiAccess(...), one audit row, and await
\* rateLimiters.roiCalculation.limit(...), whose answer is the environment's
\* choice (lines 76-90).
PostRoiLimit(r, success) ==
    /\ requests[r].pc = "log"
    /\ auditLogs' = [auditLogs EXCEPT !["API_POST"] = @ + 1]
    /\ requests' =
           IF success
           THEN [requests EXCEPT ![r].pc = "calculate"]
           ELSE Respond(r, problemResponse(429, "Rate Limit Exceeded"))
    /\ UNCHANGED <<nodeEnv, projectStatus, userRoles, roiCalculations>>
    /\ UNCHANGED engineVars
    /\ UNCHANGED callVars
    /\ UNCHANGED evidenceVars
    /\ UNCHANGED exportVars
    /\ UNCHANGED phaseVars

\* The record prisma.roiCalculation.create stores.
StoredCalculation(inputs, out) ==
    [ inputs |-> inputs,
      lowScenario |-> JSONStringify(out.low),
      mostLikelyScenario |-> JSONStringify(out.mostLikely),
      highScenario |-> JSONStringify(out.high) ]

\* Mutant: the calculation is stored before the body is validated.
PostRoiCalculate_storesFirst(r, body) ==
    /\ requests[r].pc = "calculate"
    /\ LET result == calculateRoiScenarios(body)
       IN  IF result.threw
           THEN /\ requests' = [Respond(r, handleApiError(ErrorOf(result.message), nodeEnv))
                                   EXCEPT ![r].body = <<body>>]
                /\ UNCHANGED roiCalculations
           ELSE /\ roiCalculations' =
                       Append(roiCalculations, StoredCalculation(body, result.value[1]))
                /\ requests' =
                       IF ~RoiInputsValid(body)
                       THEN [Respond(r, handleApiError(ZodError, nodeEnv))
                                EXCEPT ![r].body = <<body>>]
                       ELSE [requests EXCEPT ![r].pc = "findProject",
                                             ![r].body = <<body>>,
                                             ![r].warnings = validateRoiInputs(body),
                                             ![r].roiOutput = result.value,
                                             ![r].roiCalculation = <<Len(roiCalculations) + 1>>]
    /\ UNCHANGED <<nodeEnv, projectStatus, userRoles, auditLogs>>
    /\ UNCHANGED engineVars
    /\ UNCHANGED callVars
    /\ UNCHANGED evidenceVars
    /\ UNCHANGED exportVars
    /\ UNCHANGED phaseVars

\* Mutant: a body with warnings is refused like an invalid one.
PostRoiCalculate_blocksOnWarnings(r, body) ==
    /\ requests[r].pc = "calculate"
    /\ LET result == calculateRoiScenarios(body)
       IN  IF ~RoiInputsValid(body) \/ validateRoiInputs(body) # <<>>
           THEN /\ requests' = [Respond(r, handleApiError(ZodError, nodeEnv))
                                   EXCEPT ![r].body = <<body>>]
                /\ UNCHANGED roiCalculations
           ELSE IF result.threw
           THEN /\ requests' = [Respond(r, handleApiError(ErrorOf(result.message), nodeEnv))
                                   EXCEPT ![r].body = <<body>>,
                                          ![r].warnings = validateRoiInputs(body)]
                /\ UNCHANGED roiCalculations
           ELSE /\ roiCalculations' =
                       Append(roiCalculations, StoredCalculation(body, result.value[1]))
                /\ requests' =
                       [requests EXCEPT ![r].pc = "findProject",
                                        ![r].body = <<body>>,
                                        ![r].warnings = validateRoiInputs(body),
                                        ![r].roiOutput = result.value,
                                        ![r].roiCalculation = <<Len(roiCalculations) + 1>>]
    /\ UNCHANGED <<nodeEnv, projectStatus, userRoles, auditLogs>>
    /\ UNCHANGED engineVars
    /\ UNCHANGED callVars
    /\ UNCHANGED evidenceVars
    /\ UNCHANGED exportVars
    /\ UNCHANGED phaseVars

\* await request.json(), RoiInputs.parse(body), validateRoiInputs,
\* calculateRoiScenarios and prisma.roiCalculation.create (lines 93-126).
PostRoiCalculate(r, body) ==
    /\ requests[r].pc = "calculate"
    /\ LET result == calculateRoiScenarios(body)
       IN  IF ~RoiInputsValid(body)
           THEN /\ requests' = [Respond(r, handleApiError(ZodError, nodeEnv))
                                   EXCEPT ![r].body = <<body>>]
                /\ UNCHANGED roiCalculations
           ELSE IF result.threw
           THEN /\ requests' = [Respond(r, handleApiError(ErrorOf(result.message), nodeEnv))
                                   EXCEPT ![r].body = <<body>>,
                                          ![r].warnings = validateRoiInputs(body)]
                /\ UNCHANGED roiCalculations
           ELSE /\ roiCalculations' =
                       Append(roiCalculations, StoredCalculation(body, result.value[1]))
                /\ requests' =
                       [requests EXCEPT ![r].pc = "findProject",
                                        ![r].body = <<body>>,
                                        ![r].warnings = validateRoiInputs(body),
                                        ![r].roiOutput = result.value,
                                        ![r].roiCalculation = <<Len(roiCalculations) + 1>>]
    /\ UNCHANGED <<nodeEnv, projectStatus, userRoles, auditLogs>>
    /\ UNCHANGED engineVars
    /\ UNCHANGED callVars
    /\ UNCHANGED evidenceVars
    /\ UNCHANGED exportVars
    /\ UNCHANGED phaseVars

\* Mutant: the status is advanced for the project's first calculation,
\* whatever the status read.
PostRoiFindProject_firstCalculation(r) ==
    /\ requests[r].pc = "findProject"
    /\ requests' = [requests EXCEPT ![r].project = <<projectStatus>>,
                                    ![r].pc = IF requests[r].roiCalculation = <<1>>
                                              THEN "update" ELSE "audit"]
    /\ UNCHANGED <<nodeEnv, projectStatus, userRoles, roiCalculations, auditLogs>>
    /\ UNCHANGED engineVars
    /\ UNCHANGED callVars
    /\ UNCHANGED evidenceVars
    /\ UNCHANGED exportVars
    /\ UNCHANGED phaseVars

\* await prisma.project.findUnique({ select: { status } }) (lines 129-134)
PostRoiFindProject(r) ==
    /\ requests[r].pc = "findProject"
    /\ requests' = [requests EXCEPT ![r].project = <<projectStatus>>,
                                    ![r].pc = IF projectStatus = "PAIN"
                                              THEN "update" ELSE "audit"]
    /\ UNCHANGED <<nodeEnv, projectStatus, userRoles, roiCalculations, auditLogs>>
    /\ UNCHANGED engineVars
    /\ UNCHANGED callVars
    /\ UNCHANGED evidenceVars
    /\ UNCHANGED exportVars
    /\ UNCHANGED phaseVars

\* await prisma.project.update({ data: { status: 'ROI' } }) (lines 135-138)
PostRoiUpdate(r) ==
    /\ requests[r].pc = "update"
    /\ projectStatus' = "ROI"
    /\ requests' = [requests EXCEPT ![r].pc = "audit", ![r].updated = TRUE]
    /\ UNCHANGED <<nodeEnv, userRoles, roiCalculations, auditLogs>>
    /\ UNCHANGED engineVars
    /\ UNCHANGED callVars
    /\ UNCHANGED evidenceVars
    /\ UNCHANGED exportVars
    /\ UNCHANGED phaseVars

\* The data of the success response (lines 152-160), as NextResponse.json
\* writes it: the stored record with the three computed scenarios, and the
\* warnings.
PostRoiData(r) ==
    [ roiCalculation |-> requests[r].roiCalculation[1],
      inputs |-> requests[r].body[1],
      lowScenario |-> JSONStringify(requests[r].roiOutput[1].low),
      mostLikelyScenario |-> JSONStringify(requests[r].roiOutput[1].mostLikely),
      highScenario |-> JSONStringify(requests[r].roiOutput[1].high),
      warnings |-> requests[r].warnings ]

\* await auditLog(...) and the success response (lines 143-160)
PostRoiAudit(r) ==
    /\ requests[r].pc = "audit"
    /\ auditLogs' = [auditLogs EXCEPT !["CALCULATE_ROI"] = @ + 1]
    /\ requests' = [Respond(r, [status |-> 200,
                                title |-> "ROI calculation completed successfully"])
                       EXCEPT ![r].data = <<PostRoiData(r)>>]
    /\ UNCHANGED <<nodeEnv, projectStatus, userRoles, roiCalculations>>
    /\ UNCHANGED engineVars
    /\ UNCHANGED callVars
    /\ UNCHANGED evidenceVars
    /\ UNCHANGED exportVars
    /\ UNCHANGED phaseVars

(***************************************************************************)
(* src/app/api/projects/[id]/roi/route.ts: GET                              *)
(***************************************************************************)
\* The request arrives: auth() and await requireProjectAccess(userId,
\* params.id, 'read') (lines 30-35).
GetRoiAccess(g, u) ==
    /\ requests[g].pc = "idle"
    /\ IF u = NoUser
       THEN /\ requests' = Respond(g, problemResponse(401, "Unauthorized"))
            /\ UNCHANGED userRoles
       ELSE /\ userRoles' = IF u = OwnerId THEN userRoles
                            ELSE AfterGetUserRole(userRoles, u)
            /\ requests' =
                   IF hasProjectAccess(userRoles, u, "read")
                   THEN [requests EXCEPT ![g].pc = "find", ![g].userId = u]
                   ELSE [Respond(g, handleApiError(ErrorOf(ForbiddenMessage), nodeEnv))
                            EXCEPT ![g].userId = u]
    /\ UNCHANGED <<nodeEnv, projectStatus, roiCalculations, auditLogs>>
    /\ UNCHANGED engineVars
    /\ UNCHANGED callVars
    /\ UNCHANGED evidenceVars
    /\ UNCHANGED exportVars
    /\ UNCHANGED phaseVars

\* The latest calculation with its scenarios parsed (lines 40-54).
GetRoiResult(id) ==
    [ roiCalculation |-> id,
      inputs |-> roiCalculations[id].inputs,
      lowScenario |-> JSONParse(roiCalculations[id].lowScenario),
      mostLikelyScenario |-> JSONParse(roiCalculations[id].mostLikelyScenario),
      highScenario |-> JSONParse(roiCalculations[id].highScenario) ]

\* The data of the response, as NextResponse.json writes it (line 58).
GetRoiData(result) ==
    [ roiCalculation |-> result.roiCalculation,
      inputs |-> result.inputs,
      lowScenario |-> JSONStringify(result.lowScenario),
      mostLikelyScenario |-> JSONStringify(result.mostLikelyScenario),
      highScenario |-> JSONStringify(result.highScenario) ]

\* await logApiAccess(...), await prisma.roiCalculation.findFirst({ orderBy:
\* { createdAt: 'desc' } }) and the response (lines 36-58); without a
\* calculation the data is { roiCalculation: null }.
GetRoiFind(g) ==
    /\ requests[g].pc = "find"
    /\ auditLogs' = [auditLogs EXCEPT !["API_GET"] = @ + 1]
    /\ requests' =
           IF roiCalculations = <<>>
           THEN Respond(g, [status |-> 200, title |-> ""])
           ELSE LET result == GetRoiResult(Len(roiCalculations))
                IN  [Respond(g, [status |-> 200, title |-> ""])
                        EXCEPT ![g].result = <<result>>,
                               ![g].data = <<GetRoiData(result)>>]
    /\ UNCHANGED <<nodeEnv, projectStatus, userRoles, roiCalculations>>
    /\ UNCHANGED engineVars
    /\ UNCHANGED callVars
    /\ UNCHANGED evidenceVars
    /\ UNCHANGED exportVars
    /\ UNCHANGED phaseVars

\* The project may be in any status when the requests arrive (the statuses
\* before PAIN are set outside the modelled handlers); the other user has no
\* role row yet or is a GUEST.
Init ==
    /\ roiInputs = NothingInputs
    /\ scaleFactor = One
    /\ scaled = <<>>
    /\ scenario = <<>>
    /\ roiOutput = <<>>
    /\ warnings = <<>>
    /\ callerInputs = [c \in Callers |-> NothingInputs]
    /\ calls = [c \in Callers |-> IdleCall]
    /\ evidence = <<>>
    /\ evidenceQueue = <<>>
    /\ nlpQueue = <<>>
    /\ evidenceRequests = [r \in EvidenceRequests |-> IdleEvidenceRequest]
    /\ pains = 0
    /\ painEvidence = 0
    /\ stakeholders = {OtherStakeholder}
    /\ outreachAssets = 0
    /\ projectExports = 0
    /\ exportData = NoExportData
    /\ completeness = <<>>
    /\ nodeEnv \in {"development", "production"}
    /\ projectStatus \in ProjectStatus
    /\ userRoles \in {[u \in Users |-> IF u = OwnerId THEN "none" ELSE role] :
                          role \in {"none", "GUEST"}}
    /\ roiCalculations = <<>>
    /\ auditLogs = [a \in AuditActions |-> 0]
    /\ requests = [r \in AllRequests |-> IdleRequest]

Next ==
    \E r \in Requests :
        \/ \E u \in Users \cup {NoUser} : PostRoiAccess(r, u)
        \/ \E success \in BOOLEAN : PostRoiLimit(r, success)
        \/ \E body \in RequestBodies : PostRoiCalculate(r, body)
        \/ PostRoiFindProject(r)
        \/ PostRoiUpdate(r)
        \/ PostRoiAudit(r)

Spec == Init /\ [][Next]_vars

(***************************************************************************)
(* One POST /roi and one GET /roi of the project, by any signed-in user     *)
(* with any role.                                                           *)
(***************************************************************************)
RoiReadInit ==
    /\ roiInputs = NothingInputs
    /\ scaleFactor = One
    /\ scaled = <<>>
    /\ scenario = <<>>
    /\ roiOutput = <<>>
    /\ warnings = <<>>
    /\ callerInputs = [c \in Callers |-> NothingInputs]
    /\ calls = [c \in Callers |-> IdleCall]
    /\ evidence = <<>>
    /\ evidenceQueue = <<>>
    /\ nlpQueue = <<>>
    /\ evidenceRequests = [r \in EvidenceRequests |-> IdleEvidenceRequest]
    /\ pains = 0
    /\ painEvidence = 0
    /\ stakeholders = {OtherStakeholder}
    /\ outreachAssets = 0
    /\ projectExports = 0
    /\ exportData = NoExportData
    /\ completeness = <<>>
    /\ nodeEnv \in {"development", "production"}
    /\ projectStatus \in ProjectStatus
    /\ userRoles \in {[u \in Users |-> IF u = OwnerId THEN "none" ELSE role] :
                          role \in Roles \cup {"none"}}
    /\ roiCalculations = <<>>
    /\ auditLogs = [a \in AuditActions |-> 0]
    /\ requests = [r \in AllRequests |-> IdleRequest]

RoiReadNext ==
    \/ \E u \in Users \cup {NoUser} : PostRoiAccess(1, u)
    \/ \E success \in BOOLEAN : PostRoiLimit(1, success)
    \/ \E body \in RequestBodies : PostRoiCalculate(1, body)
    \/ PostRoiFindProject(1)
    \/ PostRoiUpdate(1)
    \/ PostRoiAudit(1)
    \/ \E g \in Readers :
           \/ \E u \in Users \cup {NoUser} : GetRoiAccess(g, u)
           \/ GetRoiFind(g)

SpecRoiRead == RoiReadInit /\ [][RoiReadNext]_vars

(***************************************************************************)
(* The evidence pipeline: POST /api/projects/[id]/evidence                  *)
(* (src/app/api/projects/[id]/evidence/route.ts), the queues of             *)
(* src/lib/queue.ts and the fetch worker (processEvidenceFetch).            *)
(***************************************************************************)
\* src/lib/schemas.ts, EvidenceCreate: type, optional url, title.  The
\* bodies sent: two for the same address with different titles, a note, a
\* file, a 'url' record without url, and a body whose url is no URL.
ValidUrls == {"https://a.example/report"}
EvidenceBodies ==
    { [type |-> "url", url |-> <<"https://a.example/report">>, title |-> "Report"],
      [type |-> "url", url |-> <<"https://a.example/report">>, title |-> "Annual report"],
      [type |-> "note", url |-> <<>>, title |-> "Call notes"],
      [type |-> "file", url |-> <<>>, title |-> "Deck"],
      [type |-> "url", url |-> <<>>, title |-> "Report"],
      [type |-> "url", url |-> <<"report">>, title |-> "Report"] }

\* z.string().url() and isValidUrl (src/lib/utils.ts): new URL(url) succeeds.
isValidUrl(url) == url \in ValidUrls

EvidenceCreateValid(body) ==
    /\ body.type \in {"url", "file", "note"}
    /\ body.url # <<>> => isValidUrl(body.url[1])
    /\ body.title # ""

\* generateContentHash: the SHA-256 of the content; different contents have
\* different hashes.
generateContentHash(content) == <<"sha256", content>>

\* What fetchUrlContent may return for the address: a page of 500
\* characters or one of 501, with the title of the page.
FetchedContents == {"page of 500 characters", "page of 501 characters"}
ContentLength(content) == IF content = "page of 501 characters" THEN 501 ELSE 500
FetchedTitle == "Page title"

\* src/lib/queue.ts: attempts of a job of the evidence queue.
EvidenceAttempts == 3

\* The jobs of the evidence queue, at most one per created record.
FetchJobs == 1..Cardinality(EvidenceRequests)

\* The request arrives: auth() and await requireProjectAccess(userId,
\* params.id, 'write') (lines 87-92).  The handlers are interchangeable, so
\* they are started in a fixed order.
EvidencePostAccess(r, u) ==
    /\ evidenceRequests[r].pc = "idle"
    /\ \A q \in EvidenceRequests : q < r => evidenceRequests[q].pc # "idle"
    /\ IF u = NoUser
       THEN /\ evidenceRequests' =
                   [evidenceRequests EXCEPT
                       ![r].pc = "done",
                       ![r].response = problemResponse(401, "Unauthorized")]
            /\ UNCHANGED userRoles
       ELSE /\ userRoles' = IF u = OwnerId THEN userRoles
                            ELSE AfterGetUserRole(userRoles, u)
            /\ evidenceRequests' =
                   IF hasProjectAccess(userRoles, u, "write")
                   THEN [evidenceRequests EXCEPT ![r].pc = "parse", ![r].userId = u]
                   ELSE [evidenceRequests EXCEPT
                            ![r].pc = "done", ![r].userId = u,
                            ![r].response =
                                handleApiError(ErrorOf(ForbiddenMessage), nodeEnv)]
    /\ UNCHANGED <<nodeEnv, projectStatus, roiCalculations, auditLogs, requests>>
    /\ UNCHANGED <<evidence, evidenceQueue, nlpQueue>>
    /\ UNCHANGED <<engineVars, callVars, phaseVars, exportVars>>

\* await logApiAccess(...), await request.json(), EvidenceCreate.parse and
\* the content hash of the url, or of the title without url (lines 93-104).
EvidencePostParse(r, body) ==
    /\ evidenceRequests[r].pc = "parse"
    /\ auditLogs' = [auditLogs EXCEPT !["API_POST"] = @ + 1]
    /\ evidenceRequests' =
           IF ~EvidenceCreateValid(body)
           THEN [evidenceRequests EXCEPT
                    ![r].pc = "done", ![r].body = <<body>>,
                    ![r].response = handleApiError(ZodError, nodeEnv)]
           ELSE [evidenceRequests EXCEPT
                    ![r].pc = "findFirst", ![r].body = <<body>>,
                    ![r].contentHash =
                        <<generateContentHash(IF body.url # <<>> THEN body.url[1]
                                              ELSE body.title)>>]
    /\ UNCHANGED <<nodeEnv, projectStatus, userRoles, roiCalculations, requests>>
    /\ UNCHANGED <<evidence, evidenceQueue, nlpQueue>>
    /\ UNCHANGED <<engineVars, callVars, phaseVars, exportVars>>

\* await prisma.evidence.findFirst({ where: { projectId, contentHash } })
\* and the 409 response (lines 107-124).
EvidencePostFindFirst(r) ==
    /\ evidenceRequests[r].pc = "findFirst"
    /\ evidenceRequests' =
           IF \E i \in DOMAIN evidence :
                  evidence[i].contentHash = evidenceRequests[r].contentHash[1]
           THEN [evidenceRequests EXCEPT
                    ![r].pc = "done",
                    ![r].response = problemResponse(409, "Duplicate Evidence")]
           ELSE [evidenceRequests EXCEPT ![r].pc = "create"]
    /\ UNCHANGED apiVars
    /\ UNCHANGED <<evidence, evidenceQueue, nlpQueue>>
    /\ UNCHANGED <<engineVars, callVars, phaseVars, exportVars>>

\* Mutant: every record but a 'url' one is approved at creation.
EvidencePostCreate_approvesFiles(r) ==
    /\ evidenceRequests[r].pc = "create"
    /\ LET body == evidenceRequests[r].body[1]
       IN  /\ evidence' =
                  Append(evidence,
                         [ type |-> body.type, url |-> body.url, title |-> body.title,
                           contentHash |-> evidenceRequests[r].contentHash[1],
                           approved |-> (body.type # "url"),
                           snippet |-> <<>> ])
           /\ evidenceRequests' =
                  [evidenceRequests EXCEPT
                      ![r].evidenceId = <<Len(evidence) + 1>>,
                      ![r].pc = IF body.type = "url" /\ body.url # <<>>
                                   /\ isValidUrl(body.url[1])
                                THEN "queue" ELSE "audit"]
    /\ UNCHANGED apiVars
    /\ UNCHANGED <<evidenceQueue, nlpQueue>>
    /\ UNCHANGED <<engineVars, callVars, phaseVars, exportVars>>

\* await prisma.evidence.create({ data: { ...validatedData, contentHash,
\* approved: validatedData.type === 'note' } }) (lines 127-137).
EvidencePostCreate(r) ==
    /\ evidenceRequests[r].pc = "create"
    /\ LET body == evidenceRequests[r].body[1]
       IN  /\ evidence' =
                  Append(evidence,
                         [ type |-> body.type, url |-> body.url, title |-> body.title,
                           contentHash |-> evidenceRequests[r].contentHash[1],
                           approved |-> (body.type = "note"),
                           snippet |-> <<>> ])
           /\ evidenceRequests' =
                  [evidenceRequests EXCEPT
                      ![r].evidenceId = <<Len(evidence) + 1>>,
                      ![r].pc = IF body.type = "url" /\ body.url # <<>>
                                   /\ isValidUrl(body.url[1])
                                THEN "queue" ELSE "audit"]
    /\ UNCHANGED apiVars
    /\ UNCHANGED <<evidenceQueue, nlpQueue>>
    /\ UNCHANGED <<engineVars, callVars, phaseVars, exportVars>>

\* addEvidenceFetchJob (src/lib/queue.ts, lines 85-92): the job
\* fetch-<evidenceId>; a job whose id is in the queue is not added again.
addEvidenceFetchJob(queue, evidenceId, url) ==
    IF \E j \in DOMAIN queue : queue[j].evidenceId = evidenceId
    THEN queue
    ELSE Append(queue, [ evidenceId |-> evidenceId, url |-> url, pc |-> "waiting",
                         attemptsMade |-> 0, content |-> <<>> ])

\* await addEvidenceFetchJob({ evidenceId, url, projectId }) (lines 137-145)
EvidencePostQueue(r) ==
    /\ evidenceRequests[r].pc = "queue"
    /\ evidenceQueue' = addEvidenceFetchJob(evidenceQueue,
                                            evidenceRequests[r].evidenceId[1],
                                            evidenceRequests[r].body[1].url[1])
    /\ evidenceRequests' = [evidenceRequests EXCEPT ![r].pc = "audit"]
    /\ UNCHANGED apiVars
    /\ UNCHANGED <<evidence, nlpQueue>>
    /\ UNCHANGED <<engineVars, callVars, phaseVars, exportVars>>

\* await auditLog(userId, 'CREATE_EVIDENCE', ...) and the 201 response
\* (lines 148-157).
EvidencePostAudit(r) ==
    /\ evidenceRequests[r].pc = "audit"
    /\ auditLogs' = [auditLogs EXCEPT !["CREATE_EVIDENCE"] = @ + 1]
    /\ evidenceRequests' =
           [evidenceRequests EXCEPT
               ![r].pc = "done",
               ![r].response = [status |-> 201, title |-> "Evidence created successfully"]]
    /\ UNCHANGED <<nodeEnv, projectStatus, userRoles, roiCalculations, requests>>
    /\ UNCHANGED <<evidence, evidenceQueue, nlpQueue>>
    /\ UNCHANGED <<engineVars, callVars, phaseVars, exportVars>>

\* processEvidenceFetch, first await: the worker takes the waiting job j and
\* fetchUrlContent(url) returns the page (lines 265-271).
ProcessEvidenceFetchFetched(j, content) ==
    /\ j \in DOMAIN evidenceQueue
    /\ evidenceQueue[j].pc = "waiting"
    /\ evidenceQueue' = [evidenceQueue EXCEPT ![j].pc = "update",
                                              ![j].content = <<content>>]
    /\ UNCHANGED apiVars
    /\ UNCHANGED <<evidence, nlpQueue, evidenceRequests>>
    /\ UNCHANGED <<engineVars, callVars, phaseVars, exportVars>>

\* processEvidenceFetch: fetchUrlContent(url) throws (lines 271, 299-300).
ProcessEvidenceFetchThrew(j) ==
    /\ j \in DOMAIN evidenceQueue
    /\ evidenceQueue[j].pc = "waiting"
    /\ evidenceQueue' = [evidenceQueue EXCEPT ![j].pc = "catch"]
    /\ UNCHANGED apiVars
    /\ UNCHANGED <<evidence, nlpQueue, evidenceRequests>>
    /\ UNCHANGED <<engineVars, callVars, phaseVars, exportVars>>

\* Mutant: the summarization is queued for every fetched page.
ProcessEvidenceFetchUpdate_alwaysSummarize(j) ==
    /\ j \in DOMAIN evidenceQueue
    /\ evidenceQueue[j].pc = "update"
    /\ LET content == evidenceQueue[j].content[1]
       IN  /\ evidence' =
                  [evidence EXCEPT
                      ![evidenceQueue[j].evidenceId].title = FetchedTitle,
                      ![evidenceQueue[j].evidenceId].snippet = <<content>>,
                      ![evidenceQueue[j].evidenceId].contentHash =
                          generateContentHash(content),
                      ![evidenceQueue[j].evidenceId].approved = TRUE]
           /\ evidenceQueue' = [evidenceQueue EXCEPT ![j].pc = "summarize"]
    /\ UNCHANGED apiVars
    /\ UNCHANGED <<nlpQueue, evidenceRequests>>
    /\ UNCHANGED <<engineVars, callVars, phaseVars, exportVars>>

\* await prisma.evidence.update with the fetched metadata, approved: true
\* (lines 274-290); without content above 500 characters the job is
\* completed.
ProcessEvidenceFetchUpdate(j) ==
    /\ j \in DOMAIN evidenceQueue
    /\ evidenceQueue[j].pc = "update"
    /\ LET content == evidenceQueue[j].content[1]
       IN  /\ evidence' =
                  [evidence EXCEPT
                      ![evidenceQueue[j].evidenceId].title = FetchedTitle,
                      ![evidenceQueue[j].evidenceId].snippet = <<content>>,
                      ![evidenceQueue[j].evidenceId].contentHash =
                          generateContentHash(content),
                      ![evidenceQueue[j].evidenceId].approved = TRUE]
           /\ evidenceQueue' =
                  [evidenceQueue EXCEPT
                      ![j].pc = IF ContentLength(content) > 500
                                THEN "summarize" ELSE "completed"]
    /\ UNCHANGED apiVars
    /\ UNCHANGED <<nlpQueue, evidenceRequests>>
    /\ UNCHANGED <<engineVars, callVars, phaseVars, exportVars>>

\* addNlpSummarizeJob (src/lib/queue.ts, lines 99-106): the job
\* nlp-<evidenceId>, added once.
addNlpSummarizeJob(queue, evidenceId, content) ==
    IF \E j \in DOMAIN queue : queue[j].evidenceId = evidenceId
    THEN queue
    ELSE Append(queue, [evidenceId |-> evidenceId, content |-> content])

\* await addNlpSummarizeJob(...) and return { success: true } (lines
\* 290-298).
ProcessEvidenceFetchSummarize(j) ==
    /\ j \in DOMAIN evidenceQueue
    /\ evidenceQueue[j].pc = "summarize"
    /\ nlpQueue' = addNlpSummarizeJob(nlpQueue, evidenceQueue[j].evidenceId,
                                      evidenceQueue[j].content[1])
    /\ evidenceQueue' = [evidenceQueue EXCEPT ![j].pc = "completed"]
    /\ UNCHANGED apiVars
    /\ UNCHANGED <<evidence, evidenceRequests>>
    /\ UNCHANGED <<engineVars, callVars, phaseVars, exportVars>>

\* The catch block (lines 299-312): the record gets the failure as its
\* snippet and the error is thrown again; the queue retries the job until
\* its attempts are used up.
ProcessEvidenceFetchCatch(j) ==
    /\ j \in DOMAIN evidenceQueue
    /\ evidenceQueue[j].pc = "catch"
    /\ evidence' = [evidence EXCEPT
                       ![evidenceQueue[j].evidenceId].snippet = <<"Failed to fetch">>]
    /\ evidenceQueue' =
           [evidenceQueue EXCEPT
               ![j].attemptsMade = @ + 1,
               ![j].pc = IF evidenceQueue[j].attemptsMade + 1 < EvidenceAttempts
                         THEN "waiting" ELSE "failed"]
    /\ UNCHANGED apiVars
    /\ UNCHANGED <<nlpQueue, evidenceRequests>>
    /\ UNCHANGED <<engineVars, callVars, phaseVars, exportVars>>

\* The other signed-in user is a GUEST.
EvidenceInit ==
    /\ roiInputs = NothingInputs
    /\ scaleFactor = One
    /\ scaled = <<>>
    /\ scenario = <<>>
    /\ roiOutput = <<>>
    /\ warnings = <<>>
    /\ callerInputs = [c \in Callers |-> NothingInputs]
    /\ calls = [c \in Callers |-> IdleCall]
    /\ evidence = <<>>
    /\ evidenceQueue = <<>>
    /\ nlpQueue = <<>>
    /\ evidenceRequests = [r \in EvidenceRequests |-> IdleEvidenceRequest]
    /\ pains = 0
    /\ painEvidence = 0
    /\ stakeholders = {OtherStakeholder}
    /\ outreachAssets = 0
    /\ projectExports = 0
    /\ exportData = NoExportData
    /\ completeness = <<>>
    /\ nodeEnv \in {"development", "production"}
    /\ projectStatus = "COMPANY"
    /\ userRoles = [u \in Users |-> IF u = OwnerId THEN "none" ELSE "GUEST"]
    /\ roiCalculations = <<>>
    /\ auditLogs = [a \in AuditActions |-> 0]
    /\ requests = [r \in AllRequests |-> IdleRequest]

EvidenceNext ==
    \/ \E r \in EvidenceRequests :
           \/ \E u \in Users \cup {NoUser} : EvidencePostAccess(r, u)
           \/ \E body \in EvidenceBodies : EvidencePostParse(r, body)
           \/ EvidencePostFindFirst(r)
           \/ EvidencePostCreate(r)
           \/ EvidencePostQueue(r)
           \/ EvidencePostAudit(r)
    \/ \E j \in FetchJobs :
           \/ \E content \in FetchedContents : ProcessEvidenceFetchFetched(j, content)
           \/ ProcessEvidenceFetchThrew(j)
           \/ ProcessEvidenceFetchUpdate(j)
           \/ ProcessEvidenceFetchSummarize(j)
           \/ ProcessEvidenceFetchCatch(j)

SpecEvidence == EvidenceInit /\ [][EvidenceNext]_vars

(***************************************************************************)
(* The phase handlers of the project: POST /pain                            *)
(* (src/app/api/projects/[id]/pain/route.ts), POST /stakeholders and        *)
(* POST /outreach (in the listing of roi/route.ts) and POST /export         *)
(* (src/app/api/projects/[id]/export/route.ts).  One action per stretch of  *)
(* a handler between two awaits on tables that another handler reads or     *)
(* writes; a handler's last audit row goes with the step before it.         *)
(***************************************************************************)
\* The top of every handler: auth() and await requireProjectAccess(userId,
\* params.id, accessType).  Without a session the answer is 401; a refusal
\* is thrown and answered by handleApiError.
HandlerAccess(r, u, accessType, next) ==
    /\ requests[r].pc = "idle"
    /\ IF u = NoUser
       THEN /\ requests' = Respond(r, problemResponse(401, "Unauthorized"))
            /\ UNCHANGED userRoles
       ELSE /\ userRoles' = IF u = OwnerId THEN userRoles
                            ELSE AfterGetUserRole(userRoles, u)
            /\ requests' =
                   IF hasProjectAccess(userRoles, u, accessType)
                   THEN [requests EXCEPT ![r].pc = next, ![r].userId = u]
                   ELSE [Respond(r, handleApiError(ErrorOf(ForbiddenMessage), nodeEnv))
                            EXCEPT ![r].userId = u]
    /\ UNCHANGED <<nodeEnv, projectStatus, roiCalculations, auditLogs>>
    /\ UNCHANGED engineVars
    /\ UNCHANGED callVars
    /\ UNCHANGED evidenceVars
    /\ UNCHANGED exportVars
    /\ UNCHANGED phaseVars

\* await prisma.project.findUnique({ select: { status: true } }) of a
\* handler that advances the status from the phase `from`; when the status
\* read is another one the handler goes on to its audit row (await
\* auditLog, a row of audit_logs that no handler reads) and its response.
HandlerFindProject(r, from, action, status, message) ==
    /\ requests[r].pc = "findProject"
    /\ IF projectStatus = from
       THEN /\ requests' = [requests EXCEPT ![r].project = <<projectStatus>>,
                                            ![r].pc = "update"]
            /\ UNCHANGED auditLogs
       ELSE /\ auditLogs' = [auditLogs EXCEPT ![action] = @ + 1]
            /\ requests' = [Respond(r, [status |-> status, title |-> message])
                               EXCEPT ![r].project = <<projectStatus>>]
    /\ UNCHANGED <<nodeEnv, projectStatus, userRoles, roiCalculations>>
    /\ UNCHANGED engineVars
    /\ UNCHANGED callVars
    /\ UNCHANGED evidenceVars
    /\ UNCHANGED exportVars
    /\ UNCHANGED phaseVars

\* await prisma.project.update({ data: { status: to } }), then the audit
\* row and the response.
HandlerUpdate(r, to, action, status, message) ==
    /\ requests[r].pc = "update"
    /\ projectStatus' = to
    /\ auditLogs' = [auditLogs EXCEPT ![action] = @ + 1]
    /\ requests' = [Respond(r, [status |-> status, title |-> message])
                       EXCEPT ![r].updated = TRUE]
    /\ UNCHANGED <<nodeEnv, userRoles, roiCalculations>>
    /\ UNCHANGED engineVars
    /\ UNCHANGED callVars
    /\ UNCHANGED evidenceVars
    /\ UNCHANGED exportVars
    /\ UNCHANGED phaseVars

\* --- POST /api/projects/[id]/pain ---------------------------------------
\* src/lib/schemas.ts, PainCreate: evidenceIds is an array of at least one
\* id.  The bodies sent: one that names the project's evidence record, one
\* that names a record the project does not have, one without evidence.
PainBodies ==
    { [evidenceIds |-> <<1>>], [evidenceIds |-> <<2>>], [evidenceIds |-> <<>>] }

PainCreateValid(body) == Len(body.evidenceIds) >= 1

\* prisma.evidence.count({ where: { id: { in: evidenceIds }, projectId } })
evidenceCount(evidenceIds) ==
    Cardinality({i \in DOMAIN evidence :
                    \E k \in DOMAIN evidenceIds : evidenceIds[k] = i})

\* lines 87-92
PostPainAccess(r, u) == HandlerAccess(r, u, "write", "log")

\* await logApiAccess, await request.json(), PainCreate.parse and the count
\* of the evidence ids (lines 93-120).
PostPainParse(r, body) ==
    /\ requests[r].pc = "log"
    /\ auditLogs' = [auditLogs EXCEPT !["API_POST"] = @ + 1]
    /\ requests' =
           IF ~PainCreateValid(body)
           THEN [Respond(r, handleApiError(ZodError, nodeEnv)) EXCEPT ![r].body = <<body>>]
           ELSE IF evidenceCount(body.evidenceIds) # Len(body.evidenceIds)
           THEN [Respond(r, problemResponse(400, "Invalid Evidence"))
                    EXCEPT ![r].body = <<body>>]
           ELSE [requests EXCEPT ![r].pc = "create", ![r].body = <<body>>]
    /\ UNCHANGED <<nodeEnv, projectStatus, userRoles, roiCalculations>>
    /\ UNCHANGED engineVars
    /\ UNCHANGED callVars
    /\ UNCHANGED evidenceVars
    /\ UNCHANGED exportVars
    /\ UNCHANGED phaseVars

\* await prisma.pain.create (lines 123-125) and await
\* Promise.all(evidenceIds.map(prisma.painEvidence.create)) (lines 128-137);
\* no handler reads the links.
PostPainCreate(r) ==
    /\ requests[r].pc = "create"
    /\ pains' = pains + 1
    /\ painEvidence' = painEvidence + Len(requests[r].body[1].evidenceIds)
    /\ requests' = [requests EXCEPT ![r].pc = "findProject", ![r].record = <<pains + 1>>]
    /\ UNCHANGED <<nodeEnv, projectStatus, userRoles, roiCalculations, auditLogs>>
    /\ UNCHANGED <<stakeholders, outreachAssets, projectExports>>
    /\ UNCHANGED engineVars
    /\ UNCHANGED callVars
    /\ UNCHANGED evidenceVars
    /\ UNCHANGED exportVars

\* lines 140-145, and lines 154-163 when the status is not COMPANY
PostPainFindProject(r) ==
    HandlerFindProject(r, "COMPANY", "CREATE_PAIN", 201, "Pain point created successfully")

\* lines 146-163
PostPainUpdate(r) ==
    HandlerUpdate(r, "PAIN", "CREATE_PAIN", 201, "Pain point created successfully")

\* --- POST /api/projects/[id]/stakeholders --------------------------------
\* src/lib/schemas.ts, StakeholderCreate: a body with a name and a persona,
\* and one without name.
StakeholderBodies ==
    { [name |-> <<"Dana">>, persona |-> "Economic_Decider"],
      [name |-> <<>>, persona |-> "Economic_Decider"] }

StakeholderCreateValid(body) == body.name # <<>>

\* roi/route.ts lines 466-471
PostStakeholderAccess(r, u) == HandlerAccess(r, u, "write", "log")

\* await logApiAccess, await request.json() and StakeholderCreate.parse
\* (lines 472-479)
PostStakeholderParse(r, body) ==
    /\ requests[r].pc = "log"
    /\ auditLogs' = [auditLogs EXCEPT !["API_POST"] = @ + 1]
    /\ requests' =
           IF ~StakeholderCreateValid(body)
           THEN [Respond(r, handleApiError(ZodError, nodeEnv)) EXCEPT ![r].body = <<body>>]
           ELSE [requests EXCEPT ![r].pc = "create", ![r].body = <<body>>]
    /\ UNCHANGED <<nodeEnv, projectStatus, userRoles, roiCalculations>>
    /\ UNCHANGED engineVars
    /\ UNCHANGED callVars
    /\ UNCHANGED evidenceVars
    /\ UNCHANGED exportVars
    /\ UNCHANGED phaseVars

\* await prisma.stakeholder.create (lines 482-489); the new row gets an id
\* no row has.
PostStakeholderCreate(r) ==
    /\ requests[r].pc = "create"
    /\ LET id == Cardinality(stakeholders)
       IN  /\ stakeholders' =
                  stakeholders \cup {[id |-> id, projectId |-> ProjectId,
                                      persona |-> requests[r].body[1].persona]}
           /\ requests' = [requests EXCEPT ![r].pc = "findProject", ![r].record = <<id>>]
    /\ UNCHANGED <<nodeEnv, projectStatus, userRoles, roiCalculations, auditLogs>>
    /\ UNCHANGED <<pains, painEvidence, outreachAssets, projectExports>>
    /\ UNCHANGED engineVars
    /\ UNCHANGED callVars
    /\ UNCHANGED evidenceVars
    /\ UNCHANGED exportVars

\* lines 492-497, and lines 506-527 when the status is not ROI
PostStakeholderFindProject(r) ==
    HandlerFindProject(r, "ROI", "CREATE_STAKEHOLDER", 201, "Stakeholder created successfully")

\* lines 498-527
PostStakeholderUpdate(r) ==
    HandlerUpdate(r, "STAKE", "CREATE_STAKEHOLDER", 201, "Stakeholder created successfully")

\* --- POST /api/projects/[id]/outreach ------------------------------------
\* OutreachGenerateRequest (roi/route.ts lines 190-194): the bodies name the
\* stakeholder of another project, the first stakeholder created in the
\* project (for an e-mail to the economic decider, and for a kind without
\* template), or no stakeholder.
OutreachBodies ==
    { [stakeholderId |-> <<0>>, kind |-> "email_economic"],
      [stakeholderId |-> <<1>>, kind |-> "email_economic"],
      [stakeholderId |-> <<1>>, kind |-> "email_user"],
      [stakeholderId |-> <<>>, kind |-> "email_economic"] }

OutreachGenerateRequestValid(body) ==
    /\ body.stakeholderId # <<>>
    /\ body.kind \in {"email_economic", "email_technical", "email_user", "linkedin_dm"}

\* src/lib/outreach-generator.ts, OUTREACH_TEMPLATES (lines 12-91): the
\* kinds and personas that have a template.
hasTemplate(kind, persona) ==
    \/ kind = "email_economic" /\ persona \in {"Economic_Decider", "Technical_Evaluator"}
    \/ kind = "linkedin_dm" /\ persona = "Economic_Decider"

\* src/lib/outreach-generator.ts, validateOutreachRequirements
\* (lines 215-235), on the lengths of pains and stakeholders and the
\* presence of roiOutput.
validateOutreachRequirements(painsLength, stakeholdersLength, hasRoiOutput) ==
    (IF painsLength = 0
     THEN <<"At least one pain point is required for outreach generation">>
     ELSE <<>>)
    \o (IF stakeholdersLength = 0
        THEN <<"At least one stakeholder is required for outreach generation">>
        ELSE <<>>)
    \o (IF ~hasRoiOutput
        THEN <<"ROI calculation is required for economic outreach generation">>
        ELSE <<>>)

\* lines 237-242
PostOutreachAccess(r, u) == HandlerAccess(r, u, "write", "log")

\* await logApiAccess and await rateLimiters.outreachGeneration.limit
\* (lines 243-257)
PostOutreachLimit(r, success) ==
    /\ requests[r].pc = "log"
    /\ auditLogs' = [auditLogs EXCEPT !["API_POST"] = @ + 1]
    /\ requests' =
           IF success
           THEN [requests EXCEPT ![r].pc = "read"]
           ELSE Respond(r, problemResponse(429, "Rate Limit Exceeded"))
    /\ UNCHANGED <<nodeEnv, projectStatus, userRoles, roiCalculations>>
    /\ UNCHANGED engineVars
    /\ UNCHANGED callVars
    /\ UNCHANGED evidenceVars
    /\ UNCHANGED exportVars
    /\ UNCHANGED phaseVars

\* What the handler reads with its Promise.all (lines 264-290): the named
\* stakeholder if it is one of the project, the top three pain points, and
\* the latest calculation with its scenarios parsed (lines 303-311).  The
\* tables only grow, so the five queries are read as one.
OutreachRead(body) ==
    [ stakeholder |->
          IF \E s \in stakeholders :
                 s.id = body.stakeholderId[1] /\ s.projectId = ProjectId
          THEN <<CHOOSE s \in stakeholders :
                     s.id = body.stakeholderId[1] /\ s.projectId = ProjectId>>
          ELSE <<>>,
      pains |-> IF pains < 3 THEN pains ELSE 3,
      roiOutput |->
          IF roiCalculations = <<>> THEN <<>>
          ELSE <<JSONParse(roiCalculations[Len(roiCalculations)].mostLikelyScenario)>> ]

\* Mutant: the requirements are not validated.
PostOutreachRead_noValidation(r, body) ==
    /\ requests[r].pc = "read"
    /\ requests' =
           IF ~OutreachGenerateRequestValid(body)
           THEN [Respond(r, handleApiError(ZodError, nodeEnv)) EXCEPT ![r].body = <<body>>]
           ELSE LET read == OutreachRead(body)
                IN  IF read.stakeholder = <<>>
                    THEN [Respond(r, problemResponse(404, "Not Found"))
                             EXCEPT ![r].body = <<body>>, ![r].result = <<read>>]
                    ELSE [requests EXCEPT ![r].pc = "create", ![r].body = <<body>>,
                                          ![r].result = <<read>>]
    /\ UNCHANGED <<nodeEnv, projectStatus, userRoles, roiCalculations, auditLogs>>
    /\ UNCHANGED engineVars
    /\ UNCHANGED callVars
    /\ UNCHANGED evidenceVars
    /\ UNCHANGED exportVars
    /\ UNCHANGED phaseVars

\* await request.json(), OutreachGenerateRequest.parse, the Promise.all of
\* the reads, the 404 without stakeholder and the 400 of
\* validateOutreachRequirements (lines 260-337).
PostOutreachRead(r, body) ==
    /\ requests[r].pc = "read"
    /\ requests' =
           IF ~OutreachGenerateRequestValid(body)
           THEN [Respond(r, handleApiError(ZodError, nodeEnv)) EXCEPT ![r].body = <<body>>]
           ELSE LET read == OutreachRead(body)
                IN  IF read.stakeholder = <<>>
                    THEN [Respond(r, problemResponse(404, "Not Found"))
                             EXCEPT ![r].body = <<body>>, ![r].result = <<read>>]
                    ELSE IF validateOutreachRequirements(read.pains, 1,
                                                         read.roiOutput # <<>>) # <<>>
                    THEN [Respond(r, problemResponse(400, "Validation Error"))
                             EXCEPT ![r].body = <<body>>, ![r].result = <<read>>]
                    ELSE [requests EXCEPT ![r].pc = "create", ![r].body = <<body>>,
                                          ![r].result = <<read>>]
    /\ UNCHANGED <<nodeEnv, projectStatus, userRoles, roiCalculations, auditLogs>>
    /\ UNCHANGED engineVars
    /\ UNCHANGED callVars
    /\ UNCHANGED evidenceVars
    /\ UNCHANGED exportVars
    /\ UNCHANGED phaseVars

\* generateOutreachAsset (src/lib/outreach-generator.ts, lines 96-132)
\* throws when the kind and the stakeholder's persona have no template, and
\* its roiOutput.mostLikely.paybackMonths.toFixed(1) throws a TypeError when
\* the stored paybackMonths is null.
generateOutreachAssetThrows(kind, stakeholder, mostLikely) ==
    \/ ~hasTemplate(kind, stakeholder.persona)
    \/ mostLikely.paybackMonths = Null

\* generateOutreachAsset and await prisma.outreachAsset.create
\* (lines 340-363); an error of the generation is answered by
\* handleApiError.
PostOutreachCreate(r) ==
    /\ requests[r].pc = "create"
    /\ LET read == requests[r].result[1]
       IN  IF generateOutreachAssetThrows(requests[r].body[1].kind, read.stakeholder[1],
                                          read.roiOutput[1])
           THEN /\ requests' = Respond(r, handleApiError(ErrorOf("No template found"),
                                                          nodeEnv))
                /\ UNCHANGED outreachAssets
           ELSE /\ outreachAssets' = outreachAssets + 1
                /\ requests' = [requests EXCEPT ![r].pc = "findProject",
                                                ![r].record = <<outreachAssets + 1>>]
    /\ UNCHANGED <<nodeEnv, projectStatus, userRoles, roiCalculations, auditLogs>>
    /\ UNCHANGED <<pains, painEvidence, stakeholders, projectExports>>
    /\ UNCHANGED engineVars
    /\ UNCHANGED callVars
    /\ UNCHANGED evidenceVars
    /\ UNCHANGED exportVars

\* lines 366-372, and lines 381-398 when the status is not STAKE
PostOutreachFindProject(r) ==
    HandlerFindProject(r, "STAKE", "GENERATE_OUTREACH", 201,
                       "Outreach asset generated successfully")

\* lines 373-398
PostOutreachUpdate(r) ==
    HandlerUpdate(r, "OUTREACH", "GENERATE_OUTREACH", 201,
                  "Outreach asset generated successfully")

\* --- POST /api/projects/[id]/export --------------------------------------
\* lines 28-33: the handler asks for 'read' access.
PostExportAccess(r, u) == HandlerAccess(r, u, "read", "log")

\* await logApiAccess and the Promise.all that reads the project and its
\* tables (lines 34-66); the project exists.
PostExportRead(r) ==
    /\ requests[r].pc = "log"
    /\ auditLogs' = [auditLogs EXCEPT !["API_POST"] = @ + 1]
    /\ requests' = [requests EXCEPT ![r].pc = "create", ![r].project = <<projectStatus>>]
    /\ UNCHANGED <<nodeEnv, projectStatus, userRoles, roiCalculations>>
    /\ UNCHANGED engineVars
    /\ UNCHANGED callVars
    /\ UNCHANGED evidenceVars
    /\ UNCHANGED exportVars
    /\ UNCHANGED phaseVars

\* The exports are generated and await prisma.projectExport.create stores
\* them (lines 68-149); the status read before decides on the update, and
\* without update the audit row and the response follow (lines 161-183).
PostExportCreate(r) ==
    /\ requests[r].pc = "create"
    /\ projectExports' = projectExports + 1
    /\ IF requests[r].project[1] # "READY"
       THEN /\ requests' = [requests EXCEPT ![r].record = <<projectExports + 1>>,
                                            ![r].pc = "update"]
            /\ UNCHANGED auditLogs
       ELSE /\ auditLogs' = [auditLogs EXCEPT !["GENERATE_EXPORT"] = @ + 1]
            /\ requests' = [Respond(r, [status |-> 200,
                                        title |-> "Export generated successfully"])
                               EXCEPT ![r].record = <<projectExports + 1>>]
    /\ UNCHANGED <<nodeEnv, projectStatus, userRoles, roiCalculations>>
    /\ UNCHANGED <<pains, painEvidence, stakeholders, outreachAssets>>
    /\ UNCHANGED engineVars
    /\ UNCHANGED callVars
    /\ UNCHANGED evidenceVars
    /\ UNCHANGED exportVars

\* lines 152-183
PostExportUpdate(r) ==
    HandlerUpdate(r, "READY", "GENERATE_EXPORT", 200, "Export generated successfully")

\* One handler of each phase and one export run on the project for its
\* owner; the outreach request comes from the owner or from the other user,
\* who is a GUEST.  The project holds one evidence record and may be in any
\* status when the requests arrive.
PhaseBodies == {ExampleInputs, NothingInputs}

PhasesInit ==
    /\ roiInputs = NothingInputs
    /\ scaleFactor = One
    /\ scaled = <<>>
    /\ scenario = <<>>
    /\ roiOutput = <<>>
    /\ warnings = <<>>
    /\ callerInputs = [c \in Callers |-> NothingInputs]
    /\ calls = [c \in Callers |-> IdleCall]
    /\ evidence = << [ type |-> "note", url |-> <<>>, title |-> "Call notes",
                       contentHash |-> generateContentHash("Call notes"),
                       approved |-> TRUE, snippet |-> <<>> ] >>
    /\ evidenceQueue = <<>>
    /\ nlpQueue = <<>>
    /\ evidenceRequests = [r \in EvidenceRequests |-> IdleEvidenceRequest]
    /\ pains = 0
    /\ painEvidence = 0
    /\ stakeholders = {OtherStakeholder}
    /\ outreachAssets = 0
    /\ projectExports = 0
    /\ exportData = NoExportData
    /\ completeness = <<>>
    /\ nodeEnv = "production"
    /\ projectStatus \in ProjectStatus
    /\ userRoles = [u \in Users |-> IF u = OwnerId THEN "none" ELSE "GUEST"]
    /\ roiCalculations = <<>>
    /\ auditLogs = [a \in AuditActions |-> 0]
    /\ requests = [r \in AllRequests |-> IdleRequest]

\* The handlers in rs have started.  The first step of a handler changes no
\* table, so the handlers are started in a fixed order.
Started(rs) == \A r \in rs : requests[r].pc # "idle"

PhasesNext ==
    \/ \E r \in PainRequests :
           \/ PostPainAccess(r, OwnerId)
           \/ \E body \in PainBodies : PostPainParse(r, body)
           \/ PostPainCreate(r)
           \/ PostPainFindProject(r)
           \/ PostPainUpdate(r)
    \/ Started(PainRequests) /\ PostRoiAccess(1, OwnerId)
    \/ \E success \in BOOLEAN : PostRoiLimit(1, success)
    \/ \E body \in PhaseBodies : PostRoiCalculate(1, body)
    \/ PostRoiFindProject(1)
    \/ PostRoiUpdate(1)
    \/ PostRoiAudit(1)
    \/ \E r \in StakeholderRequests :
           \/ Started({1}) /\ PostStakeholderAccess(r, OwnerId)
           \/ \E body \in StakeholderBodies : PostStakeholderParse(r, body)
           \/ PostStakeholderCreate(r)
           \/ PostStakeholderFindProject(r)
           \/ PostStakeholderUpdate(r)
    \/ \E r \in OutreachRequests :
           \/ Started(StakeholderRequests) /\ \E u \in Users : PostOutreachAccess(r, u)
           \/ \E success \in BOOLEAN : PostOutreachLimit(r, success)
           \/ \E body \in OutreachBodies : PostOutreachRead(r, body)
           \/ PostOutreachCreate(r)
           \/ PostOutreachFindProject(r)
           \/ PostOutreachUpdate(r)
    \/ \E r \in ExportRequests :
           \/ Started(OutreachRequests) /\ PostExportAccess(r, OwnerId)
           \/ PostExportRead(r)
           \/ PostExportCreate(r)
           \/ PostExportUpdate(r)

SpecPhases == PhasesInit /\ [][PhasesNext]_vars

(***************************************************************************)

(* src/unnamed/part_002 (the export generator): calculateCompleteness       *)
(***************************************************************************)
\* Mutant: the third stakeholder counts 15 points.
calculateCompleteness_stakeholders15(data) ==
    LET score ==
            (IF data.evidence >= 1 THEN 10 ELSE 0)
            + (IF data.evidence >= 3 THEN 10 ELSE 0)
            + (IF data.evidence >= 5 THEN 10 ELSE 0)
            + (IF data.pains >= 1 THEN 15 ELSE 0)
            + (IF data.pains >= 3 THEN 10 ELSE 0)
            + (IF data.roiOutput THEN 20 ELSE 0)
            + (IF data.stakeholders >= 1 THEN 10 ELSE 0)
            + (IF data.stakeholders >= 3 THEN 15 ELSE 0)
            + (IF data.outreachAssets >= 1 THEN 10 ELSE 0)
        maxScore == 100
    IN  IF score < maxScore THEN score ELSE maxScore

\* calculateCompleteness(data) (lines 303-327): the points of the five
\* parts, and Math.min(score, maxScore).
calculateCompleteness(data) ==
    LET score ==
            (IF data.evidence >= 1 THEN 10 ELSE 0)
            + (IF data.evidence >= 3 THEN 10 ELSE 0)
            + (IF data.evidence >= 5 THEN 10 ELSE 0)
            + (IF data.pains >= 1 THEN 15 ELSE 0)
            + (IF data.pains >= 3 THEN 10 ELSE 0)
            + (IF data.roiOutput THEN 20 ELSE 0)
            + (IF data.stakeholders >= 1 THEN 10 ELSE 0)
            + (IF data.stakeholders >= 3 THEN 5 ELSE 0)
            + (IF data.outreachAssets >= 1 THEN 10 ELSE 0)
        maxScore == 100
    IN  IF score < maxScore THEN score ELSE maxScore

\* The exports the function is called on: up to MaxRows rows per table.
MaxRows == 6

ExportDatas ==
    [ evidence : 0..MaxRows, pains : 0..MaxRows, roiOutput : BOOLEAN,
      stakeholders : 0..MaxRows, outreachAssets : 0..MaxRows ]

CompletenessInit ==
    /\ roiInputs = NothingInputs
    /\ scaleFactor = One
    /\ scaled = <<>>
    /\ scenario = <<>>
    /\ roiOutput = <<>>
    /\ warnings = <<>>
    /\ callerInputs = [c \in Callers |-> NothingInputs]
    /\ calls = [c \in Callers |-> IdleCall]
    /\ evidence = <<>>
    /\ evidenceQueue = <<>>
    /\ nlpQueue = <<>>
    /\ evidenceRequests = [r \in EvidenceRequests |-> IdleEvidenceRequest]
    /\ pains = 0
    /\ painEvidence = 0
    /\ stakeholders = {OtherStakeholder}
    /\ outreachAssets = 0
    /\ projectExports = 0
    /\ exportData \in ExportDatas
    /\ completeness = <<>>
    /\ nodeEnv = "development"
    /\ projectStatus = "INIT"
    /\ userRoles = [u \in Users |-> "none"]
    /\ roiCalculations = <<>>
    /\ auditLogs = [a \in AuditActions |-> 0]
    /\ requests = [r \in AllRequests |-> IdleRequest]

CallCalculateCompleteness ==
    /\ completeness = <<>>
    /\ completeness' = <<calculateCompleteness(exportData)>>
    /\ UNCHANGED exportData
    /\ UNCHANGED <<engineVars, callVars, apiVars>>
    /\ UNCHANGED evidenceVars
    /\ UNCHANGED phaseVars

CompletenessNext == CallCalculateCompleteness

SpecCompleteness == CompletenessInit /\ [][CompletenessNext]_vars

(***************************************************************************)

(* Properties of the engine                                                 *)
(***************************************************************************)
Called(v) == v # <<>>
RoiReturned == Called(roiOutput) /\ ~roiOutput[1].threw
Out == roiOutput[1].value[1]
ValidInputs == RoiInputsValid(roiInputs)
Half == Rat(1, 2)

\* C1: for every valid RoiInputs the three scenarios are ordered by benefit:
\* low.totalBenefit <= mostLikely.totalBenefit <= high.totalBenefit.
C1_BenefitMonotone ==
    (ValidInputs /\ RoiReturned) =>
        /\ Le(Out.low.totalBenefit, Out.mostLikely.totalBenefit)
        /\ Le(Out.mostLikely.totalBenefit, Out.high.totalBenefit)

\* A valid input whose three benefits are strictly increasing.
C1_Witness ==
    /\ ValidInputs /\ RoiReturned
    /\ Lt(Out.low.totalBenefit, Out.mostLikely.totalBenefit)
    /\ Lt(Out.mostLikely.totalBenefit, Out.high.totalBenefit)

\* The scenarios the state holds, each with the record it was computed from.
ScenarioPairs ==
    (IF Called(scenario)
     THEN {[s |-> scenario[1], args |-> scaled[1]]} ELSE {})
    \cup
    (IF RoiReturned
     THEN {[s |-> Out.mostLikely, args |-> roiInputs]} ELSE {})

\* C2 as stated: paybackMonths is the unbounded sentinel exactly when the
\* scenario's total benefit is 0, and finite and strictly positive otherwise.
C2_Original ==
    ValidInputs =>
        \A p \in ScenarioPairs :
            /\ (p.s.paybackMonths = Infinity) <=> (totalBenefit(p.args) = Zero)
            /\ totalBenefit(p.args) # Zero =>
                   IsFinite(p.s.paybackMonths) /\ Gt(p.s.paybackMonths, Zero)

\* C2 amended: paybackMonths is the unbounded sentinel exactly when the
\* scenario's unrounded total benefit is 0, and finite and not negative
\* otherwise (it is 0 when the total costs are 0).
C2_PaybackSentinel ==
    ValidInputs =>
        \A p \in ScenarioPairs :
            /\ (p.s.paybackMonths = Infinity) <=> (totalBenefit(p.args) = Zero)
            /\ totalBenefit(p.args) # Zero =>
                   IsFinite(p.s.paybackMonths) /\ Ge(p.s.paybackMonths, Zero)

\* A valid input with a positive benefit and no costs: the payback is 0 months.
C2_Witness ==
    /\ ValidInputs /\ RoiReturned
    /\ Gt(totalBenefit(roiInputs), Zero)
    /\ Out.mostLikely.paybackMonths = Zero
    /\ Out.mostLikely.totalBenefit # Zero

ScenarioFields == {"totalBenefit", "year1Net", "roiPct", "paybackMonths"}

\* C3: calculateRoiScenarios throws exactly when nPeople < 1 or
\* costPerHour < 0, and returns a full RoiOutput (three scenarios of four
\* fields each) for every other input.
C3_FailsExactlyOnInvalid ==
    Called(roiOutput) =>
        /\ roiOutput[1].threw <=>
               (Lt(roiInputs.nPeople, One) \/ Lt(roiInputs.costPerHour, Zero))
        /\ roiOutput[1].threw => roiOutput[1].value = <<>>
        /\ ~roiOutput[1].threw =>
               /\ DOMAIN Out = {"low", "mostLikely", "high"}
               /\ \A k \in DOMAIN Out : DOMAIN Out[k] = ScenarioFields

\* The boundary nPeople = 1, costPerHour = 0 succeeds although another field
\* (hours) is out of the schema's range.
C3_Witness ==
    /\ RoiReturned
    /\ roiInputs.nPeople = One /\ roiInputs.costPerHour = Zero
    /\ Lt(roiInputs.hoursSavedPerPersonPerMonth, Zero)

ScaledFields ==
    {"hoursSavedPerPersonPerMonth", "errorReductionPct", "cloudReductionPct",
     "riskReductionPct"}

\* C5: scaleInputs leaves every field other than hoursSavedPerPersonPerMonth
\* and the three reduction percentages as in the input, the cost fields in
\* particular, so the scaled record has the same total costs.
C5_CostsNeverScaled ==
    Called(scaled) =>
        /\ DOMAIN scaled[1] = RoiInputFields
        /\ \A f \in RoiInputFields \ ScaledFields : scaled[1][f] = roiInputs[f]
        /\ Add(scaled[1].licenseCostAnnual, scaled[1].implementationOneTime)
               = Add(roiInputs.licenseCostAnnual, roiInputs.implementationOneTime)

\* scaleInputs changed a benefit field of a record with non-zero costs.
C5_Witness ==
    /\ Called(scaled)
    /\ scaleFactor # One
    /\ Gt(roiInputs.licenseCostAnnual, Zero)
    /\ Gt(roiInputs.implementationOneTime, Zero)
    /\ scaled[1].hoursSavedPerPersonPerMonth # roiInputs.hoursSavedPerPersonPerMonth

PctFields == {"errorReductionPct", "cloudReductionPct", "riskReductionPct"}

\* C6: scaleInputs sets each reduction percentage to min(1, pct * f), never
\* above 1, and hoursSavedPerPersonPerMonth to hours * f without a ceiling.
C6_PctClampedHoursNot ==
    Called(scaled) =>
        /\ \A f \in PctFields :
               LET x == Mul(roiInputs[f], scaleFactor)
               IN  /\ Le(x, One) => scaled[1][f] = x
                   /\ Gt(x, One) => scaled[1][f] = One
                   /\ Le(scaled[1][f], One)
        /\ scaled[1].hoursSavedPerPersonPerMonth
               = Mul(roiInputs.hoursSavedPerPersonPerMonth, scaleFactor)

\* 0.9 scaled by 1.25 is clamped to 1 while the hours grow above 1.
C6_Witness ==
    /\ Called(scaled)
    /\ scaleFactor = Rat(5, 4)
    /\ roiInputs.errorReductionPct = Rat(9, 10)
    /\ scaled[1].errorReductionPct = One
    /\ Gt(scaled[1].hoursSavedPerPersonPerMonth, roiInputs.hoursSavedPerPersonPerMonth)
    /\ Gt(scaled[1].hoursSavedPerPersonPerMonth, One)

\* C7: a scenario whose total costs are 0 has roiPct exactly 0, whatever the
\* benefit.
C7_ZeroCostZeroRoi ==
    \A p \in ScenarioPairs :
        Add(p.args.licenseCostAnnual, p.args.implementationOneTime) = Zero =>
            p.s.roiPct = Zero

\* Zero costs with a positive benefit.
C7_Witness ==
    /\ RoiReturned
    /\ Add(roiInputs.licenseCostAnnual, roiInputs.implementationOneTime) = Zero
    /\ Gt(Out.mostLikely.totalBenefit, Zero)
    /\ Out.mostLikely.roiPct = Zero

\* r is Math.round(x): the integer with r <= x + 1/2 < r + 1.
IsRoundOf(r, x) ==
    /\ IsInt(r)
    /\ Le(r, Add(x, Half))
    /\ Lt(Add(x, Half), Add(r, One))

\* r is x rounded to one decimal: 10 r is Math.round(10 x); Infinity stays.
IsRoundTenthOf(r, x) ==
    IF x = Infinity THEN r = Infinity
    ELSE IsFinite(r) /\ IsRoundOf(Mul(r, Ten), Mul(x, Ten))

\* The unrounded quantities of the specification's formulas for a record a.
ExactBenefit(a) ==
    Add(Add(Add(Mul(Mul(Mul(a.nPeople, a.hoursSavedPerPersonPerMonth), Twelve),
                    a.costPerHour),
                Mul(a.errorCostAnnual, a.errorReductionPct)),
            Mul(a.cloudSpendAnnual, a.cloudReductionPct)),
        Mul(a.riskCostAnnual, a.riskReductionPct))
ExactCosts(a) == Add(a.licenseCostAnnual, a.implementationOneTime)
ExactRoiPct(a) ==
    IF Gt(ExactCosts(a), Zero)
    THEN Mul(Div(Sub(ExactBenefit(a), ExactCosts(a)), ExactCosts(a)), Hundred)
    ELSE Zero
ExactPayback(a) ==
    IF Gt(ExactBenefit(a), Zero)
    THEN Div(Mul(ExactCosts(a), Twelve), ExactBenefit(a))
    ELSE Infinity

\* C8: every output field is the rounding of the unrounded quantity:
\* totalBenefit = round(labor + quality + cloud + risk), year1Net =
\* round(totalBenefit - totalCosts) of the unrounded sums, roiPct and
\* paybackMonths rounded to one decimal; no intermediate value is rounded.
C8_RoundedOnce ==
    \A p \in ScenarioPairs :
        /\ IsRoundOf(p.s.totalBenefit, ExactBenefit(p.args))
        /\ IsRoundOf(p.s.year1Net, Sub(ExactBenefit(p.args), ExactCosts(p.args)))
        /\ IsRoundTenthOf(p.s.roiPct, ExactRoiPct(p.args))
        /\ IsRoundTenthOf(p.s.paybackMonths, ExactPayback(p.args))

\* A scenario where rounding the sums first would give another year1Net, and
\* whose roiPct and paybackMonths have a non-zero decimal.
C8_Witness ==
    /\ RoiReturned
    /\ Out.mostLikely.year1Net #
           Sub(Out.mostLikely.totalBenefit, MathRound(ExactCosts(roiInputs)))
    /\ ~IsInt(Out.mostLikely.roiPct)
    /\ IsFinite(Out.mostLikely.paybackMonths)
    /\ ~IsInt(Out.mostLikely.paybackMonths)

\* C9: calculateRoiScenarios returns exactly the three scenarios low,
\* mostLikely and high; low is calculateScenario of the inputs scaled by 0.75
\* and high that of the inputs scaled by 1.25, for every input.
C9_FixedFactors ==
    RoiReturned =>
        /\ DOMAIN Out = {"low", "mostLikely", "high"}
        /\ (Called(scenario) /\ scaleFactor = Rat(3, 4)) => Out.low = scenario[1]
        /\ (Called(scenario) /\ scaleFactor = Rat(5, 4)) => Out.high = scenario[1]

\* The low scenario of an input for which scaling changes the result.
C9_Witness ==
    /\ RoiReturned /\ Called(scenario)
    /\ scaleFactor = Rat(3, 4)
    /\ Out.low = scenario[1]
    /\ Out.low # Out.mostLikely
    /\ Out.high # Out.mostLikely

\* C10: scaling a valid input by 1.0 gives the input back, and
\* calculateScenario of it equals calculateRoiScenarios(inputs).mostLikely in
\* all four fields.
C10_RoundTrip ==
    (ValidInputs /\ Called(scaled) /\ scaleFactor = One) =>
        /\ scaled[1] = roiInputs
        /\ (Called(scenario) /\ RoiReturned) =>
               \A f \in ScenarioFields : scenario[1][f] = Out.mostLikely[f]

\* The round trip on an input with hours above 1 and a percentage near 1.
C10_Witness ==
    /\ ValidInputs /\ Called(scenario) /\ RoiReturned
    /\ scaleFactor = One
    /\ Gt(roiInputs.hoursSavedPerPersonPerMonth, One)
    /\ Gt(roiInputs.costPerHour, Zero)
    /\ roiInputs.errorReductionPct = Rat(9, 10)
    /\ scenario[1] = Out.mostLikely

(***************************************************************************)
(* Properties of POST /api/projects/[id]/roi                                *)
(***************************************************************************)
\* The handler q has read a body that the schema or the engine's
\* nPeople / costPerHour check refuses.
InputsRejected(q) ==
    /\ requests[q].body # <<>>
    /\ LET body == requests[q].body[1]
       IN  \/ ~RoiInputsValid(body)
           \/ Lt(body.nPeople, One)
           \/ Lt(body.costPerHour, Zero)

\* The handler that takes the step.
Stepped(q) == requests'[q] # requests[q]

\* C4: a handler whose inputs are rejected answers with an error, holds no
\* RoiOutput, stores no ROI calculation and does not change the project's
\* status: every stored record and every status change comes from a handler
\* whose inputs were accepted.
C4_RejectedStoresNothing ==
    [][ /\ \A q \in Requests :
               InputsRejected(q)' =>
                   /\ requests'[q].response.status \in {400, 500}
                   /\ requests'[q].roiOutput = <<>>
                   /\ requests'[q].roiCalculation = <<>>
                   /\ ~requests'[q].updated
                   /\ Stepped(q) => UNCHANGED <<roiCalculations, projectStatus>>
        /\ roiCalculations' # roiCalculations =>
               \E q \in Requests :
                   /\ Stepped(q) /\ ~InputsRejected(q)'
                   /\ requests'[q].roiCalculation = <<Len(roiCalculations')>>
        /\ projectStatus' # projectStatus =>
               \E q \in Requests :
                   Stepped(q) /\ ~InputsRejected(q)' /\ requests'[q].updated
      ]_vars

\* Both handlers were refused, one for nPeople = 0 and one for costPerHour =
\* -1, and the project is still in PAIN without any stored calculation.
C4_Witness ==
    /\ \A q \in Requests : InputsRejected(q) /\ requests[q].pc = "done"
    /\ \E q \in Requests : requests[q].body[1].nPeople = Zero
    /\ \E q \in Requests : Lt(requests[q].body[1].costPerHour, Zero)
    /\ projectStatus = "PAIN"
    /\ roiCalculations = <<>>

(***************************************************************************)
(* Properties of the reasonableness heuristics                              *)
(***************************************************************************)
\* The six warnings in the order of their checks.
WarningOrder ==
    << "Hours saved per month seems high (>160 hours)",
       "Cost per hour seems high (>$200)",
       "Error reduction >90% may be optimistic",
       "Cloud cost reduction >50% may be optimistic",
       "Risk reduction >80% may be optimistic",
       "Total benefits may not justify license costs" >>

Range(seq) == {seq[i] : i \in DOMAIN seq}

\* The condition of the i-th check on a record a, as the specification
\* states it.
Breached(i, a) ==
    CASE i = 1 -> Gt(a.hoursSavedPerPersonPerMonth, Int2Rat(160))
      [] i = 2 -> Gt(a.costPerHour, Int2Rat(200))
      [] i = 3 -> Gt(a.errorReductionPct, Rat(9, 10))
      [] i = 4 -> Gt(a.cloudReductionPct, Rat(1, 2))
      [] i = 5 -> Gt(a.riskReductionPct, Rat(4, 5))
      [] i = 6 -> Lt(ExactBenefit(a), a.licenseCostAnnual)

\* C11: validateRoiInputs reports the i-th warning exactly when the i-th
\* condition holds, whatever the other conditions are, and the list
\* returned is in check order, each warning at most once.
C11_WarningsExactInOrder ==
    Called(warnings) =>
        /\ \A i \in 1..6 :
               (WarningOrder[i] \in Range(warnings[1])) <=> Breached(i, roiInputs)
        /\ warnings[1] = SelectSeq(WarningOrder, LAMBDA t : t \in Range(warnings[1]))

\* All six warnings at once.
C11_Witness ==
    /\ Called(warnings)
    /\ warnings[1] = WarningOrder

(***************************************************************************)
(* Properties of the warnings in POST /api/projects/[id]/roi                *)
(***************************************************************************)
\* The handler q has read a body that passes the hard validation.
InputsAccepted(q) == requests[q].body # <<>> /\ ~InputsRejected(q)

\* C12: warnings are advisory.  A handler whose body passes the hard
\* validation holds the list validateRoiInputs returned for the body and all
\* three scenarios, has stored its calculation with the body's inputs, and
\* is never answered with an error, whether or not the list is empty; its
\* 200 response carries the stored calculation and the warnings.
C12_WarningsAdvisory ==
    \A q \in Requests :
        InputsAccepted(q) =>
            LET body == requests[q].body[1]
                w == requests[q].warnings
            IN  /\ \A i \in 1..6 : (WarningOrder[i] \in Range(w)) <=> Breached(i, body)
                /\ requests[q].roiOutput # <<>>
                /\ DOMAIN requests[q].roiOutput[1] = {"low", "mostLikely", "high"}
                /\ requests[q].roiCalculation # <<>>
                /\ requests[q].roiCalculation[1] \in DOMAIN roiCalculations
                /\ roiCalculations[requests[q].roiCalculation[1]].inputs = body
                /\ requests[q].response.status \in {0, 200}
                /\ requests[q].pc = "done" =>
                       /\ requests[q].response.status = 200
                       /\ requests[q].data # <<>>
                       /\ requests[q].data[1].warnings = w
                       /\ requests[q].data[1].roiCalculation = requests[q].roiCalculation[1]

\* A request with a cost per hour of 250 was answered 200 with the
\* cost-per-hour warning, and its calculation is stored.
C12_Witness ==
    \E q \in Requests :
        /\ requests[q].pc = "done"
        /\ requests[q].response.status = 200
        /\ requests[q].data # <<>>
        /\ requests[q].data[1].warnings = <<"Cost per hour seems high (>$200)">>
        /\ roiCalculations # <<>>

(***************************************************************************)
(* Properties of GET /api/projects/[id]/roi                                 *)
(***************************************************************************)
\* The scenario GET returns has the fields of the computed scenario with
\* the same values.
SameScenario(returned, computed) ==
    /\ DOMAIN returned = DOMAIN computed
    /\ \A f \in DOMAIN computed : returned[f] = computed[f]

\* C13: a GET that finds the calculation a POST stored returns low,
\* mostLikely and high scenarios equal field for field to the scenarios that
\* POST computed.
C13_StoredVerbatim ==
    \A g \in Readers, q \in Requests :
        (requests[g].result # <<>> /\ requests[q].roiCalculation # <<>>
            /\ requests[g].result[1].roiCalculation = requests[q].roiCalculation[1]) =>
            /\ SameScenario(requests[g].result[1].lowScenario,
                            requests[q].roiOutput[1].low)
            /\ SameScenario(requests[g].result[1].mostLikelyScenario,
                            requests[q].roiOutput[1].mostLikely)
            /\ SameScenario(requests[g].result[1].highScenario,
                            requests[q].roiOutput[1].high)

(***************************************************************************)
(* Properties of concurrent invocations                                     *)
(***************************************************************************)
\* What the function of caller c's invocation returns when it runs alone on
\* the caller's object.
AloneResult(c) ==
    CASE calls[c].function = "calculateRoiScenarios" ->
             calculateRoiScenarios(callerInputs[c])
      [] calls[c].function = "validateRoiInputs" ->
             validateRoiInputs(callerInputs[c])
      [] calls[c].function = "scaleInputs" ->
             scaleInputs(callerInputs[c], calls[c].scaleFactor)

\* C14: whatever the other caller does meanwhile, a finished invocation has
\* returned (or thrown) what its function returns when it runs alone on the
\* caller's inputs.
C14_NoInterference ==
    \A c \in Callers :
        calls[c].pc = "done" => calls[c].returned = <<AloneResult(c)>>

\* Caller 2 ran calculateRoiScenarios to its end while caller 1, with other
\* inputs, is between the most likely and the high scenario of its own
\* invocation; caller 2 got the result of its own inputs.
C14_Witness ==
    /\ callerInputs[1] = ExampleInputs
    /\ callerInputs[2] = [ExampleInputs EXCEPT !.costPerHour = Int2Rat(250)]
    /\ \A c \in Callers : calls[c].function = "calculateRoiScenarios"
    /\ calls[1].pc = "highScenario"
    /\ calls[1].mostLikelyScenario[1].totalBenefit = Int2Rat(80000)
    /\ calls[2].pc = "done"
    /\ calls[2].returned[1].value[1].mostLikely.totalBenefit = Int2Rat(200000)

\* C15: no step of calculateRoiScenarios, scaleInputs or validateRoiInputs,
\* returning or throwing, changes a field of the RoiInputs object the caller
\* passed.
C15_InputsNeverModified ==
    [][\A c \in Callers :
          \A f \in RoiInputFields : callerInputs'[c][f] = callerInputs[c][f]]_vars

\* scaleInputs returned the example scaled by 1.25 (6.25 hours) and the
\* caller's object still holds 5 hours; the other caller's
\* calculateRoiScenarios failed on nPeople = 0.
C15_Witness ==
    /\ calls[1].pc = "done" /\ calls[1].function = "scaleInputs"
    /\ calls[1].returned[1].hoursSavedPerPersonPerMonth = Rat(25, 4)
    /\ callerInputs[1] = ExampleInputs
    /\ calls[2].pc = "done" /\ calls[2].function = "calculateRoiScenarios"
    /\ calls[2].returned[1].threw
    /\ callerInputs[2].nPeople = Zero

(***************************************************************************)
(* The example of the specification                                         *)
(***************************************************************************)
\* C16: for the example inputs the most likely scenario is totalBenefit
\* 80000, year1Net 10000, roiPct 14.3 and paybackMonths 10.5.
C16_ExampleMostLikely ==
    (roiInputs = ExampleInputs /\ Called(roiOutput)) =>
        /\ ~roiOutput[1].threw
        /\ Out.mostLikely =
               [ totalBenefit |-> Int2Rat(80000),
                 year1Net |-> Int2Rat(10000),
                 roiPct |-> Rat(143, 10),
                 paybackMonths |-> Rat(105, 10) ]

C16_Witness ==
    /\ roiInputs = ExampleInputs
    /\ RoiReturned
    /\ Out.mostLikely.paybackMonths = Rat(21, 2)

\* The example with a cost per hour of 250.
ExampleCost250 == [ExampleInputs EXCEPT !.costPerHour = Int2Rat(250)]

\* C17: validateRoiInputs returns no warning for the example inputs, and
\* exactly the cost-per-hour warning for the example with costPerHour 250.
C17_ExampleWarnings ==
    Called(warnings) =>
        /\ roiInputs = ExampleInputs => warnings[1] = <<>>
        /\ roiInputs = ExampleCost250 =>
               warnings[1] = <<"Cost per hour seems high (>$200)">>

C17_Witness ==
    /\ roiInputs = ExampleCost250
    /\ Called(warnings)
    /\ Len(warnings[1]) = 1

(***************************************************************************)
(* Properties of the access control                                         *)
(***************************************************************************)
\* The handler r runs for a signed-in user who is neither the owner of the
\* project nor an admin.
ForeignUser(r) ==
    /\ requests[r].userId \in Users \ {OwnerId}
    /\ userRoles[requests[r].userId] # "ADMIN"

\* C18: a handler running for a user who is neither the owner nor an admin
\* has been refused by requireProjectAccess: it is finished with an error
\* response and has neither read nor stored a calculation.
C18_OwnerOrAdminOnly ==
    \A r \in Requests \cup Readers :
        ForeignUser(r) =>
            /\ requests[r].pc = "done"
            /\ requests[r].response.status \in {403, 500}
            /\ requests[r].result = <<>>
            /\ requests[r].roiCalculation = <<>>

(***************************************************************************)
(* Properties of the evidence pipeline                                      *)
(***************************************************************************)
\* The source of an evidence record or body: its url, or its title when it
\* has no url.
SourceOf(e) == IF e.url # <<>> THEN e.url[1] ELSE e.title

\* The handler r makes its duplicate check in this step.
ChecksDuplicate(r) ==
    /\ evidenceRequests[r].pc = "findFirst"
    /\ evidenceRequests'[r].pc # "findFirst"

\* C19: a POST that makes its duplicate check while the project holds a
\* record of the same source (the same url, or the same title when there is
\* no url) is answered 409 Duplicate Evidence and creates no record.
C19_DuplicateRejected ==
    [][\A r \in EvidenceRequests :
          (/\ ChecksDuplicate(r)
           /\ \E i \in DOMAIN evidence :
                  SourceOf(evidence[i]) = SourceOf(evidenceRequests[r].body[1])) =>
              /\ evidenceRequests'[r].pc = "done"
              /\ evidenceRequests'[r].response.status = 409
              /\ evidence' = evidence]_vars

\* The type of record i is t.
IsOfType(i, t) == evidence[i].type = t

\* The step is the successful update of a fetch job for record i.
FetchSucceeds(i) ==
    \E j \in DOMAIN evidenceQueue :
        /\ evidenceQueue[j].evidenceId = i
        /\ evidenceQueue[j].pc = "update"
        /\ evidenceQueue'[j].pc \in {"summarize", "completed"}

\* C20: a record is created approved exactly when it is a note; a record
\* becomes approved later only when it is a 'url' record and the step is the
\* successful update of its fetch job; a 'file' record is never approved.
C20_Approval ==
    [][/\ \A i \in DOMAIN evidence' \ DOMAIN evidence :
              evidence'[i].approved <=> (evidence'[i].type = "note")
       /\ \A i \in DOMAIN evidence :
              /\ evidence'[i].type = evidence[i].type
              /\ (evidence'[i].approved /\ ~evidence[i].approved) =>
                     IsOfType(i, "url") /\ FetchSucceeds(i)
              /\ IsOfType(i, "file") => ~evidence'[i].approved
      ]_vars

\* A 'url' record approved by the third attempt of its fetch job, next to a
\* 'file' record that is not approved, both handlers answered 201.
C20_Witness ==
    /\ Len(evidence) = 2
    /\ \E i, k \in DOMAIN evidence :
           /\ IsOfType(i, "url") /\ evidence[i].approved
           /\ IsOfType(k, "file") /\ ~evidence[k].approved
    /\ \E j \in DOMAIN evidenceQueue :
           evidenceQueue[j].attemptsMade = 2 /\ evidenceQueue[j].pc = "completed"
    /\ \A r \in EvidenceRequests : evidenceRequests[r].response.status = 201

(***************************************************************************)
(* Properties of the project status                                         *)
(***************************************************************************)
\* The handler r of POST /roi has stored a calculation and is past its
\* status update.
PastUpdate(r) ==
    /\ requests[r].roiCalculation # <<>>
    /\ requests[r].pc \in {"audit", "done"}

PhaseRequests == PainRequests \cup {1} \cup StakeholderRequests \cup OutreachRequests
PhaseStep(r) ==
    CASE r \in PainRequests -> <<"COMPANY", "PAIN">>
      [] r \in Requests -> <<"PAIN", "ROI">>
      [] r \in StakeholderRequests -> <<"ROI", "STAKE">>
      [] r \in OutreachRequests -> <<"STAKE", "OUTREACH">>

\* The record the handler r created, if any.
Created(r) == IF r \in Requests THEN requests[r].roiCalculation ELSE requests[r].record

\* The step is one of the handler r.
StepOf(r) == requests'[r] # requests[r]

\* C22: a step of a phase handler changes the status only from the phase
\* before its own to its own (pain COMPANY -> PAIN, ROI PAIN -> ROI,
\* stakeholder ROI -> STAKE, outreach STAKE -> OUTREACH); a handler that
\* finds the project in another status has created its record and ends
\* without changing the status.
C22_OnePhaseForward ==
    [][\A r \in PhaseRequests :
          StepOf(r) =>
              /\ projectStatus' # projectStatus =>
                     <<projectStatus, projectStatus'>> = PhaseStep(r)
              /\ (requests[r].pc = "findProject" /\ projectStatus # PhaseStep(r)[1]) =>
                     /\ Created(r) # <<>>
                     /\ requests'[r].pc \in {"audit", "done"}
                     /\ projectStatus' = projectStatus
      ]_vars

\* src/lib/schemas.ts, Project.status: the phases in their order.
StatusOrder ==
    <<"INIT", "INDUSTRY", "COMPANY", "PAIN", "ROI", "STAKE", "OUTREACH", "QA", "READY">>
Rank(status) == CHOOSE i \in DOMAIN StatusOrder : StatusOrder[i] = status

\* C23: whatever the interleaving of the pain, ROI, stakeholder, outreach
\* and export handlers, no step moves the status backward in the order of
\* the phases; READY stays READY.
C23_NeverBackward ==
    [][Rank(projectStatus') >= Rank(projectStatus)]_vars

\* The handlers that ask requireProjectAccess for 'read' access: GET /roi
\* and POST /export.
ReadHandlers == Readers \cup ExportRequests

\* C27: no step of a handler that asked for 'read' access only changes the
\* project's status.
C27_ReadLeavesStatus ==
    [][\A r \in ReadHandlers : StepOf(r) => projectStatus' = projectStatus]_vars

\* The handlers r and q of POST /evidence were sent bodies with the same url.
SameUrl(r, q) ==
    /\ evidenceRequests[r].body # <<>> /\ evidenceRequests[q].body # <<>>
    /\ evidenceRequests[r].body[1].url # <<>>
    /\ evidenceRequests[r].body[1].url = evidenceRequests[q].body[1].url

\* C24: of two POST /evidence handlers with the same url, whatever the
\* interleaving of their duplicate checks and creates, at most one creates
\* a record, and when one has created a record the other one is answered
\* 409.
C24_OneRecordPerUrl ==
    \A r, q \in EvidenceRequests :
        (r # q /\ SameUrl(r, q)) =>
            /\ ~(evidenceRequests[r].evidenceId # <<>> /\ evidenceRequests[q].evidenceId # <<>>)
            /\ (evidenceRequests[r].evidenceId # <<>> /\ evidenceRequests[q].pc = "done") =>
                   evidenceRequests[q].response.status = 409

\* The record of the fetch job j holds the metadata of the page the job
\* fetched and is approved.
UpdatedWithFetched(j) ==
    LET e == evidence[evidenceQueue[j].evidenceId]
        content == evidenceQueue[j].content[1]
    IN  /\ evidenceQueue[j].content # <<>>
        /\ e.approved
        /\ e.title = FetchedTitle
        /\ e.snippet = <<content>>
        /\ e.contentHash = generateContentHash(content)

\* The run of the fetch job j fails in this step: the fetch throws, or the
\* catch block ends.
FetchFails(j) ==
    \/ evidenceQueue[j].pc = "waiting" /\ evidenceQueue'[j].pc = "catch"
    \/ evidenceQueue[j].pc = "catch" /\ evidenceQueue'[j].pc # "catch"

\* C28: a step that adds a job to the NLP queue is a step of a fetch job
\* whose record already holds the fetched metadata and is approved and
\* whose page is longer than 500 characters, and the job added is the one
\* of that record; a run whose fetch fails adds no NLP job, leaves the
\* approval of every record as it is, and ends with the job thrown back to
\* the queue, which runs it again while attempts are left.
C28_SummarizeAfterApproval ==
    [][/\ nlpQueue' # nlpQueue =>
              \E j \in DOMAIN evidenceQueue :
                  /\ evidenceQueue[j].pc = "summarize"
                  /\ evidenceQueue'[j].pc = "completed"
                  /\ UpdatedWithFetched(j)
                  /\ ContentLength(evidenceQueue[j].content[1]) > 500
                  /\ nlpQueue' = Append(nlpQueue,
                                        [evidenceId |-> evidenceQueue[j].evidenceId,
                                         content |-> evidenceQueue[j].content[1]])
       /\ \A j \in DOMAIN evidenceQueue :
              /\ (evidenceQueue[j].pc = "update" /\ evidenceQueue'[j].pc = "completed") =>
                     ContentLength(evidenceQueue[j].content[1]) <= 500
              /\ FetchFails(j) =>
                     /\ nlpQueue' = nlpQueue
                     /\ \A i \in DOMAIN evidence : evidence'[i].approved = evidence[i].approved
              /\ (evidenceQueue[j].pc = "catch" /\ evidenceQueue'[j].pc # "catch") =>
                     /\ evidenceQueue'[j].attemptsMade = evidenceQueue[j].attemptsMade + 1
                     /\ evidenceQueue'[j].pc =
                            IF evidenceQueue'[j].attemptsMade < EvidenceAttempts
                            THEN "waiting" ELSE "failed"
      ]_vars

\* The first run of a fetch job failed and the job was run again: its
\* second run fetched a page of more than 500 characters, approved the
\* record and queued the summarization; the job of the other record failed
\* three times, and that record is neither approved nor summarized.
C28_Witness ==
    \E j, k \in DOMAIN evidenceQueue :
        /\ evidenceQueue[j].attemptsMade = 1
        /\ evidenceQueue[j].pc = "completed"
        /\ UpdatedWithFetched(j)
        /\ \E n \in DOMAIN nlpQueue : nlpQueue[n].evidenceId = evidenceQueue[j].evidenceId
        /\ evidenceQueue[k].pc = "failed"
        /\ ~evidence[evidenceQueue[k].evidenceId].approved
        /\ \A n \in DOMAIN nlpQueue : nlpQueue[n].evidenceId # evidenceQueue[k].evidenceId

\* The requirements of an outreach asset hold now for the body: the project
\* has a pain point, the stakeholder named is one of the project, and a
\* calculation is stored.
OutreachRequirementsMet(body) ==
    /\ pains >= 1
    /\ body.stakeholderId # <<>>
    /\ \E s \in stakeholders : s.id = body.stakeholderId[1] /\ s.projectId = ProjectId
    /\ roiCalculations # <<>>

\* C25: an outreach asset is created only by a POST /outreach handler, one
\* at a time, and only while the requirements hold for its body; a handler
\* that reads the project while they do not hold is answered 400 or 404 in
\* that step, and it never creates an asset or changes the status.
C25_OutreachRequirements ==
    [][/\ outreachAssets' # outreachAssets =>
              /\ outreachAssets' = outreachAssets + 1
              /\ \E r \in OutreachRequests :
                     /\ requests[r].pc = "create"
                     /\ requests'[r].record = <<outreachAssets'>>
                     /\ OutreachRequirementsMet(requests[r].body[1])
       /\ \A r \in OutreachRequests :
              /\ (requests[r].pc = "read" /\ StepOf(r)
                     /\ ~OutreachRequirementsMet(requests'[r].body[1])) =>
                     /\ requests'[r].pc = "done"
                     /\ requests'[r].response.status \in {400, 404}
                     /\ outreachAssets' = outreachAssets
                     /\ projectStatus' = projectStatus
              /\ requests[r].pc = "done" => ~StepOf(r)
              /\ (StepOf(r) /\ projectStatus' # projectStatus) => requests[r].record # <<>>
      ]_vars

\* The outreach handler found a pain point, its stakeholder and a stored
\* calculation, created the project's first asset and was answered 201.
C25_Witness ==
    \E r \in OutreachRequests :
        /\ requests[r].pc = "done"
        /\ requests[r].response.status = 201
        /\ requests[r].record = <<1>>
        /\ outreachAssets = 1
        /\ OutreachRequirementsMet(requests[r].body[1])

\* requireProjectAccess has refused the signed-in user of the handler r,
\* and the handler has answered.
Denied(r) ==
    /\ requests[r].pc = "done"
    /\ requests[r].userId \in Users
    /\ ~hasProjectAccess(userRoles, requests[r].userId, "write")

\* C26: a handler whose signed-in user requireProjectAccess refuses has
\* answered 403 Forbidden, and has neither stored a calculation nor changed
\* the status nor read one for the user.
C26_DeniedIsForbidden ==
    \A r \in Requests \cup Readers :
        Denied(r) =>
            /\ requests[r].response = problemResponse(403, "Forbidden")
            /\ requests[r].roiCalculation = <<>>
            /\ ~requests[r].updated
            /\ requests[r].result = <<>>

(***************************************************************************)
(* Order of the scenario metrics                                            *)
(***************************************************************************)
\* C29: for every valid input with total costs above 0 the scenarios are
\* ordered in year1Net and roiPct like in benefit, low <= mostLikely <=
\* high, and in paybackMonths the other way round, low >= mostLikely >=
\* high, Infinity being the greatest value.
C29_MetricsOrdered ==
    (ValidInputs /\ RoiReturned /\ Gt(totalCosts(roiInputs), Zero)) =>
        /\ Le(Out.low.year1Net, Out.mostLikely.year1Net)
        /\ Le(Out.mostLikely.year1Net, Out.high.year1Net)
        /\ Le(Out.low.roiPct, Out.mostLikely.roiPct)
        /\ Le(Out.mostLikely.roiPct, Out.high.roiPct)
        /\ Ge(Out.low.paybackMonths, Out.mostLikely.paybackMonths)
        /\ Ge(Out.mostLikely.paybackMonths, Out.high.paybackMonths)

\* A valid input with costs whose three scenarios differ strictly in all
\* three metrics.
C29_Witness ==
    /\ ValidInputs /\ RoiReturned /\ Gt(totalCosts(roiInputs), Zero)
    /\ Lt(Out.low.year1Net, Out.mostLikely.year1Net)
    /\ Lt(Out.mostLikely.year1Net, Out.high.year1Net)
    /\ Lt(Out.low.roiPct, Out.mostLikely.roiPct)
    /\ Lt(Out.mostLikely.roiPct, Out.high.roiPct)
    /\ Gt(Out.low.paybackMonths, Out.mostLikely.paybackMonths)
    /\ Gt(Out.mostLikely.paybackMonths, Out.high.paybackMonths)
    /\ IsFinite(Out.low.paybackMonths)

(***************************************************************************)
(* Properties of the completeness score                                     *)
(***************************************************************************)
\* The exports that are the export d with one more row in one table, or
\* with a ROI output added.
GrownBy1(d) ==
    { [d EXCEPT ![f] = @ + 1] : f \in {"evidence", "pains", "stakeholders", "outreachAssets"} }
        \cup { [d EXCEPT !.roiOutput = TRUE] }

\* Every part of the export has reached its last threshold.
Complete(d) ==
    /\ d.evidence >= 5
    /\ d.pains >= 3
    /\ d.roiOutput
    /\ d.stakeholders >= 3
    /\ d.outreachAssets >= 1

\* C30: calculateCompleteness returns an integer from 0 to 100, returns at
\* least as much for the export with one more evidence record, pain point,
\* stakeholder or outreach asset or with a ROI output added, and returns 100
\* exactly when evidence >= 5, pains >= 3, the ROI output is present,
\* stakeholders >= 3 and outreach assets >= 1.
C30_Completeness ==
    completeness # <<>> =>
        /\ completeness[1] \in 0..100
        /\ \A d \in GrownBy1(exportData) : calculateCompleteness(d) >= completeness[1]
        /\ completeness[1] = 100 <=> Complete(exportData)

\* The score of an export just at the five thresholds is 100.
C30_Witness ==
    /\ completeness = <<100>>
    /\ exportData = [ evidence |-> 5, pains |-> 3, roiOutput |-> TRUE,
                      stakeholders |-> 3, outreachAssets |-> 1 ]

====
